---- MODULE Spec2Model ----
(***************************************************************************)
(* Model of the sequential runtime of game-blocks                          *)
(* (app/src/core/runtime/runtime.ts) walking a compiled Program            *)
(* (app/src/core/compiler/ast.ts) against a generic RuntimeAdapter.        *)
(*                                                                         *)
(* The host is one cooperative event loop: every action below is one       *)
(* synchronous segment of JavaScript, from the point where a continuation  *)
(* is resumed to the next `await` (or to the end of the function).         *)
(* stop(), timer callbacks and promise settlements are separate segments   *)
(* that interleave with the walk only at its awaits.                       *)
(***************************************************************************)
EXTENDS Integers, Sequences, FiniteSets, TLC

\* ---------------------------------------------------------------------
\* Bounds of the model
\* ---------------------------------------------------------------------
\* Largest number of op nodes (nested ones included) of a program.
MaxNodes == 3
\* Largest number of stop() calls made on one controller.
MaxStopCalls == 2

\* Repeat.times values, in halves: -1/2, 3/2 and 2.
TimesHalves == {-1, 3, 4}
\* Wait.ms values.
WaitMs == {-50, 500}
\* Values an adapter may throw or reject with.
Errors == {"WIN", "boom"}

\* ---------------------------------------------------------------------
\* AST (ast.ts)
\* ---------------------------------------------------------------------
\* One record shape for the five op kinds; a field an op kind does not
\* have holds a filler.  times is the rational <<numerator, denominator>>.
Op(kind, times, body, ms) ==
  [kind |-> kind, blockId |-> 0, steps |-> 0, direction |-> "",
   times |-> times, body |-> body, ms |-> ms]

StartOp == Op("start", <<0, 1>>, <<>>, 0)
MoveSteps(n) == [Op("move", <<0, 1>>, <<>>, 0) EXCEPT !.steps = n]
TurnDir(d) == [Op("turn", <<0, 1>>, <<>>, 0) EXCEPT !.direction = d]
MoveOp == MoveSteps(1)
TurnOp == TurnDir("right")
WaitOp(ms) == Op("wait", <<0, 1>>, <<>>, ms)
RepeatOp(times, body) == Op("repeat", times, body, 0)

LeafOps == {StartOp, MoveOp, TurnOp} \cup {WaitOp(ms) : ms \in WaitMs}

TimesSet == {<<h, 2>> : h \in TimesHalves}

\* countOps that does not look into the body of a repeat.
countOpsFlat(ops) == Len(ops)

RECURSIVE countOps(_)
\* validate.ts countOps: every op node, nested repeat bodies included.
\* The sum of the loop is taken over the two halves of ops, so that a
\* program of hundreds of ops evaluates in shallow recursion.
countOps(ops) ==
  IF Len(ops) = 0 THEN 0
  ELSE IF Len(ops) = 1
  THEN 1 + (IF ops[1].kind = "repeat" THEN countOps(ops[1].body) ELSE 0)
  ELSE LET h == Len(ops) \div 2
       IN countOps(SubSeq(ops, 1, h)) + countOps(SubSeq(ops, h + 1, Len(ops)))

RECURSIVE TreesOf(_), ForestsOf(_)
\* The ops of exactly n nodes.
TreesOf(n) ==
  (IF n = 1 THEN LeafOps ELSE {})
    \cup {RepeatOp(t, b) : t \in TimesSet, b \in ForestsOf(n - 1)}

\* The op sequences of exactly n nodes.
ForestsOf(n) ==
  IF n = 0 THEN {<<>>}
  ELSE UNION {{<<t>> \o f : t \in TreesOf(k), f \in ForestsOf(n - k)} : k \in 1..n}

RECURSIVE Label(_, _)
\* Every op carries the id of its block: here its preorder number.
Label(ops, base) ==
  IF ops = <<>> THEN <<>>
  ELSE LET op == Head(ops)
           me == [op EXCEPT !.blockId = base, !.body = Label(op.body, base + 1)]
       IN <<me>> \o Label(Tail(ops), base + 1 + countOps(op.body))

Programs ==
  {[ops |-> Label(f, 1)] : f \in UNION {ForestsOf(n) : n \in 0..MaxNodes}}

\* ---------------------------------------------------------------------
\* State
\* ---------------------------------------------------------------------
VARIABLES
  program,        \* the Program passed to runProgram
  running,        \* runtime.ts:31
  stopped,        \* runtime.ts:32
  state,          \* runtime.ts:33, the adapter's state (an opaque token)
  pendingTimers,  \* runtime.ts:34, ids of the timers the run keeps track of
  timers,         \* the window's scheduled timeouts: [id, ms]
  nextTimerId,    \* the id window.setTimeout returns next
  stack,          \* the active runOps invocations, outermost first
  aw,             \* the await the walk is suspended at
  trace,          \* what the run has done so far: hooks, adapter calls, timeouts
  returned,       \* runProgram has returned its controller
  stopCalls,      \* number of calls of controller.stop()
  adapter         \* which RuntimeAdapter the run was given: "generic" or "maze"

\* The state of the parts of the program that are exercised on their own:
\* each specification below drives one part and leaves the others idle.
VARIABLES
  vIn,            \* validate.ts: the program handed to validateProgram
  vOut,           \* validate.ts: how the call ended
  ad,             \* mazeApp.ts: the adapter called directly (state, log of calls)
  hWorkspace,     \* main.ts:74, the block graph of the editor
  hController,    \* main.ts:81, how many controllers runtimeController has held
  hClicks,        \* the button clicks handled so far: how many, and the last
  hOld            \* the run of the controller runtimeController held before

\* The variables the runtime does not touch.
others == <<vIn, vOut, ad, hWorkspace, hController, hClicks, hOld>>

vars ==
  <<program, running, stopped, state, pendingTimers, timers, nextTimerId,
    stack, aw, trace, returned, stopCalls, adapter, others>>

Ev(ev, arg, st) == [ev |-> ev, arg |-> arg, st |-> st]

\* The await of the walk: kind names the awaited expression ("call": run()
\* not invoked yet, "apply": line 72, "sleep": line 74, "body": line 68,
\* "root": line 82, "end": run() is over); status is pending, ok or err;
\* val is the resolved state (apply) or the timer id (sleep); err the
\* rejection value.
Await(kind, status, val, err) ==
  [kind |-> kind, status |-> status, val |-> val, err |-> err]

Frame(ops) == [ops |-> ops, k |-> 1, i |-> 0]

Top(stk) == stk[Len(stk)]
Pop(stk) == SubSeq(stk, 1, Len(stk) - 1)
SetTop(stk, f) == [stk EXCEPT ![Len(stk)] = f]
CurrentOp(stk) == Top(stk).ops[Top(stk).k]

MathMax(a, b) == IF a >= b THEN a ELSE b
\* Math.floor of the rational q.
MathFloor(q) == q[1] \div q[2]

\* Math.ceil of the rational q.
MathCeil(q) == -((-q[1]) \div q[2])

\* RepeatTimes rounding the count up instead of down.
RepeatTimesCeil(op) == MathMax(0, MathCeil(op.times))

\* runtime.ts:63
RepeatTimes(op) == MathMax(0, MathFloor(op.times))

\* The promise of a runOps invocation has settled: its caller is the
\* repeat loop of the frame below (line 68) or run() (line 82).
CallerAwait(stk, status, err) ==
  Await(IF stk = <<>> THEN "root" ELSE "body", status, 0, err)

RECURSIVE LoopHead(_, _), RepHead(_, _)
\* LoopHead with onStep fired only for the ops handed to the adapter.
LoopHeadStepAfterRepeat(stk, tr) ==
  LET f == Top(stk)
  IN IF f.k > Len(f.ops) \/ stopped
     THEN [stack |-> Pop(stk), trace |-> tr, at |-> "returned"]
     ELSE LET op == f.ops[f.k]
          IN IF op.kind = "repeat"
             THEN RepHead(SetTop(stk, [f EXCEPT !.i = 0]), tr)
             ELSE [stack |-> stk,
                   trace |-> Append(tr, Ev("onStep", op.blockId, 0)),
                   at |-> "applyOp"]

\* LoopHead with the repeat op handed to the adapter like any other op.
LoopHeadAppliesRepeat(stk, tr) ==
  LET f == Top(stk)
  IN IF f.k > Len(f.ops) \/ stopped
     THEN [stack |-> Pop(stk), trace |-> tr, at |-> "returned"]
     ELSE [stack |-> stk,
           trace |-> Append(tr, Ev("onStep", f.ops[f.k].blockId, 0)),
           at |-> "applyOp"]

\* LoopHead without the stopped check of line 58.
LoopHeadNoStopCheck(stk, tr) ==
  LET f == Top(stk)
  IN IF f.k > Len(f.ops)
     THEN [stack |-> Pop(stk), trace |-> tr, at |-> "returned"]
     ELSE LET op == f.ops[f.k]
              tr1 == Append(tr, Ev("onStep", op.blockId, 0))
          IN IF op.kind = "repeat"
             THEN RepHead(SetTop(stk, [f EXCEPT !.i = 0]), tr1)
             ELSE [stack |-> stk, trace |-> tr1, at |-> "applyOp"]

\* runOps from the head of the for-of loop (lines 57-61) of the innermost
\* invocation up to the next await: either the invocation returns, or it
\* is about to call adapter.applyOp (line 72).
LoopHead(stk, tr) ==
  LET f == Top(stk)
  IN IF f.k > Len(f.ops) \/ stopped
     THEN [stack |-> Pop(stk), trace |-> tr, at |-> "returned"]
     ELSE LET op == f.ops[f.k]
              tr1 == Append(tr, Ev("onStep", op.blockId, 0))
          IN IF op.kind = "repeat"
             THEN RepHead(SetTop(stk, [f EXCEPT !.i = 0]), tr1)
             ELSE [stack |-> stk, trace |-> tr1, at |-> "applyOp"]

\* The repeat loop (lines 63-70) from its condition.
RepHead(stk, tr) ==
  LET f == Top(stk)
      op == f.ops[f.k]
  IN IF f.i < RepeatTimes(op)
     THEN IF stopped
          THEN [stack |-> Pop(stk), trace |-> tr, at |-> "returned"]
          ELSE LoopHead(Append(stk, Frame(op.body)),
                        Append(tr, Ev("iterBegin", op.blockId, 0)))
     ELSE LoopHead(SetTop(stk, [f EXCEPT !.k = f.k + 1]), tr)

\* The for-of loop moves on to the next op.
NextOp(stk) == SetTop(stk, [Top(stk) EXCEPT !.k = Top(stk).k + 1])

\* ---------------------------------------------------------------------
\* The maze adapter (apps/maze/mazeApp.ts)
\* ---------------------------------------------------------------------
\* The value of an absent message.
Undefined == "undefined"

DIR_ORDER == <<"N", "E", "S", "W">>

\* DIR_DELTAS with the y axis pointing up (north is y + 1).
DIR_DELTAS_YUp ==
  [d \in {"N", "E", "S", "W"} |->
     CASE d = "N" -> [x |-> 0, y |-> 1]
       [] d = "E" -> [x |-> 1, y |-> 0]
       [] d = "S" -> [x |-> 0, y |-> -1]
       [] d = "W" -> [x |-> -1, y |-> 0]]

\* mazeApp.ts:40-46
DIR_DELTAS ==
  [d \in {"N", "E", "S", "W"} |->
     CASE d = "N" -> [x |-> 0, y |-> -1]
       [] d = "E" -> [x |-> 1, y |-> 0]
       [] d = "S" -> [x |-> 0, y |-> 1]
       [] d = "W" -> [x |-> -1, y |-> 0]]

Cell(x, y) == [x |-> x, y |-> y]

\* The level table (apps/maze/levels.ts): grid size, walls, goal, start
\* and the optional block constraints of each level.
\*   1: 3x3, no wall, start (0,0) facing north, goal (1,1)
\*   2: 3x3, no wall, start (0,2) facing north, goal (1,1)
\*   3: 3x3, wall at (0,1), start (0,0) facing south, goal (2,2)
\*   4: 4x3, walls at (2,0) and (1,2), start (0,1) facing east, goal (3,1),
\*      at most 4 blocks and a repeat block required
levels ==
  << [id |-> 1, gridW |-> 3, gridH |-> 3, walls |-> {},
      goal |-> Cell(1, 1), start |-> [x |-> 0, y |-> 0, dir |-> "N"],
      constraints |-> [maxBlocks |-> -1, mustUseRepeat |-> FALSE]],
     [id |-> 2, gridW |-> 3, gridH |-> 3, walls |-> {},
      goal |-> Cell(1, 1), start |-> [x |-> 0, y |-> 2, dir |-> "N"],
      constraints |-> [maxBlocks |-> -1, mustUseRepeat |-> FALSE]],
     [id |-> 3, gridW |-> 3, gridH |-> 3, walls |-> {Cell(0, 1)},
      goal |-> Cell(2, 2), start |-> [x |-> 0, y |-> 0, dir |-> "S"],
      constraints |-> [maxBlocks |-> -1, mustUseRepeat |-> FALSE]],
     [id |-> 4, gridW |-> 4, gridH |-> 3, walls |-> {Cell(2, 0), Cell(1, 2)},
      goal |-> Cell(3, 1), start |-> [x |-> 0, y |-> 1, dir |-> "E"],
      constraints |-> [maxBlocks |-> 4, mustUseRepeat |-> TRUE]] >>

LevelIds == {levels[n].id : n \in 1..Len(levels)}

\* mazeApp.ts:50-51
getLevel(levelId) ==
  IF \E n \in 1..Len(levels) : levels[n].id = levelId
  THEN levels[CHOOSE n \in 1..Len(levels) :
                /\ levels[n].id = levelId
                /\ \A m \in 1..(n - 1) : levels[m].id # levelId]
  ELSE levels[1]

\* mazeApp.ts:53-61
makeInitialState(levelId) ==
  LET level == getLevel(levelId)
  IN [levelId |-> level.id, player |-> level.start, status |-> "idle",
      message |-> Undefined]

\* DIR_ORDER.indexOf(dir)
indexOf(dir) == (CHOOSE n \in 1..Len(DIR_ORDER) : DIR_ORDER[n] = dir) - 1

\* mazeApp.ts:63-66
turnLeft(dir) == DIR_ORDER[((indexOf(dir) + 3) % Len(DIR_ORDER)) + 1]

\* mazeApp.ts:68-71
turnRight(dir) == DIR_ORDER[((indexOf(dir) + 1) % Len(DIR_ORDER)) + 1]

\* isBlocked seeing no wall.
isBlockedNever(level, x, y) == FALSE

\* mazeApp.ts:73-74
isBlocked(level, x, y) == \E wall \in level.walls : wall.x = x /\ wall.y = y

\* inBounds taking every cell to be on the grid.
inBoundsAlways(level, x, y) == TRUE

\* mazeApp.ts:76-77
inBounds(level, x, y) == x >= 0 /\ y >= 0 /\ x < level.gridW /\ y < level.gridH

MathAbs(n) == IF n >= 0 THEN n ELSE -n

RECURSIVE moveLoopThrowsFirst(_, _, _, _, _)
\* The move loop throwing CHOQUE before it has set the status.
moveLoopThrowsFirst(level, st, delta, sign, n) ==
  IF n = 0
  THEN [state |-> st, thrown |-> ""]
  ELSE LET nextX == st.player.x + delta.x * sign
           nextY == st.player.y + delta.y * sign
       IN IF ~inBounds(level, nextX, nextY) \/ isBlocked(level, nextX, nextY)
          THEN [state |-> st, thrown |-> "CHOQUE"]
          ELSE LET moved == [st EXCEPT !.player.x = nextX, !.player.y = nextY]
               IN IF moved.player.x = level.goal.x /\ moved.player.y = level.goal.y
                  THEN [state |-> [moved EXCEPT !.status = "win",
                                                !.message = "¡Llegaste!"],
                        thrown |-> "WIN"]
                  ELSE moveLoopThrowsFirst(level, moved, delta, sign, n - 1)

RECURSIVE moveLoop(_, _, _, _, _)
\* The loop of a move op (mazeApp.ts:344-361) with n steps left.  The
\* state object is changed in place, so what was done before a throw stays.
moveLoop(level, st, delta, sign, n) ==
  IF n = 0
  THEN [state |-> st, thrown |-> ""]
  ELSE LET nextX == st.player.x + delta.x * sign
           nextY == st.player.y + delta.y * sign
       IN IF ~inBounds(level, nextX, nextY) \/ isBlocked(level, nextX, nextY)
          THEN [state |-> [st EXCEPT !.status = "error", !.message = "¡Choque!"],
                thrown |-> "CHOQUE"]
          ELSE LET moved == [st EXCEPT !.player.x = nextX, !.player.y = nextY]
               IN IF moved.player.x = level.goal.x /\ moved.player.y = level.goal.y
                  THEN [state |-> [moved EXCEPT !.status = "win",
                                                !.message = "¡Llegaste!"],
                        thrown |-> "WIN"]
                  ELSE moveLoop(level, moved, delta, sign, n - 1)

\* applyOp without the early return of lines 329-331.
applyOpNoEarlyReturn(op, st) ==
  LET level == getLevel(st.levelId)
  IN IF op.kind = "turn"
     THEN [state |-> [st EXCEPT !.player.dir =
                        IF op.direction = "left"
                        THEN turnLeft(st.player.dir)
                        ELSE turnRight(st.player.dir)],
           thrown |-> ""]
     ELSE IF op.kind = "move"
     THEN moveLoop(level, st, DIR_DELTAS[st.player.dir],
                   IF op.steps >= 0 THEN 1 ELSE -1, MathAbs(op.steps))
     ELSE [state |-> st, thrown |-> ""]

\* adapter.applyOp, mazeApp.ts:327-371: the state object after the call
\* and the value thrown ("" when the call returns).
applyOp(op, st) ==
  LET level == getLevel(st.levelId)
  IN IF st.status = "win" \/ st.status = "error"
     THEN [state |-> st, thrown |-> ""]
     ELSE IF op.kind = "turn"
     THEN [state |-> [st EXCEPT !.player.dir =
                        IF op.direction = "left"
                        THEN turnLeft(st.player.dir)
                        ELSE turnRight(st.player.dir)],
           thrown |-> ""]
     ELSE IF op.kind = "move"
     THEN moveLoop(level, st, DIR_DELTAS[st.player.dir],
                   IF op.steps >= 0 THEN 1 ELSE -1, MathAbs(op.steps))
     ELSE [state |-> st, thrown |-> ""]

\* reset that leaves the message of the previous run in place.
resetKeepsMessage(st) ==
  LET next == makeInitialState(st.levelId)
  IN [st EXCEPT !.levelId = next.levelId, !.player = next.player,
                !.status = next.status]

\* adapter.reset, mazeApp.ts:372-380
reset(st) ==
  LET next == makeInitialState(st.levelId)
  IN [st EXCEPT !.levelId = next.levelId, !.player = next.player,
                !.status = next.status, !.message = next.message]

\* The generic adapter: applyOp(op, s) yields the next state token.
AdapterNext(s) == s + 1

\* The ways a call adapter.applyOp(op, s) can end (runtime.ts:4): how is
\* "value" (a state is returned), "promise" (a pending promise is
\* returned) or "throw"; now is the state object right after the call, val
\* the state returned, err the value thrown.  The generic adapter may end
\* in any way; the maze adapter is synchronous and works on the state
\* object in place.
AdapterCall(op, s) ==
  IF adapter = "maze"
  THEN LET r == applyOp(op, s)
       IN {[how |-> IF r.thrown = "" THEN "value" ELSE "throw",
            now |-> r.state, val |-> r.state, err |-> r.thrown]}
  ELSE {[how |-> "value", now |-> s, val |-> AdapterNext(s), err |-> ""],
        [how |-> "promise", now |-> s, val |-> s, err |-> ""]}
         \cup {[how |-> "throw", now |-> s, val |-> s, err |-> e] : e \in Errors}

\* The walk stops at its next await with adapter state s: r is what
\* LoopHead/RepHead computed.  At line 72 the adapter is called; it returns
\* a state, returns a promise or throws.
Suspend(r, s) ==
  IF r.at = "returned"
  THEN /\ state' = s
       /\ stack' = r.stack
       /\ trace' = r.trace
       /\ aw' = CallerAwait(r.stack, "ok", "")
  ELSE LET op == CurrentOp(r.stack)
           tr == Append(r.trace, Ev("applyOp", op.blockId, s))
       IN \E o \in AdapterCall(op, s) :
            /\ state' = o.now
            /\ \/ /\ o.how = "value"
                  /\ stack' = r.stack
                  /\ trace' = tr
                  /\ aw' = Await("apply", "ok", o.val, "")
               \/ /\ o.how = "promise"
                  /\ stack' = r.stack
                  /\ trace' = tr
                  /\ aw' = Await("apply", "pending", 0, "")
               \/ /\ o.how = "throw"
                  /\ stack' = Pop(r.stack)
                  /\ trace' = Append(tr, Ev("throw", o.err, 0))
                  /\ aw' = CallerAwait(Pop(r.stack), "err", o.err)

\* ---------------------------------------------------------------------
\* Initial state: runProgram has run lines 31-34
\* ---------------------------------------------------------------------
\* The parts that a specification does not drive.
ValidateIdle == vIn = [ops |-> <<>>] /\ vOut = "idle"
AdapterIdle == ad = [st |-> makeInitialState(1), log |-> <<>>]
\* The variables of runProgram's closure, one set for each run.
RunOf(p, rn, sp, pt, stk, a, rt, sc) ==
  [program |-> p, running |-> rn, stopped |-> sp, pendingTimers |-> pt,
   stack |-> stk, aw |-> a, returned |-> rt, stopCalls |-> sc]

\* No run: nothing is running and nothing is queued.
NoRun ==
  RunOf([ops |-> <<>>], FALSE, FALSE, <<>>, <<>>, Await("end", "ok", 0, ""),
        FALSE, 0)

HostIdle ==
  /\ hWorkspace = <<>>
  /\ hController = 0
  /\ hClicks = [n |-> 0, last |-> "none"]
  /\ hOld = [run |-> NoRun, swapped |-> FALSE]

Init ==
  /\ adapter = "generic"
  /\ ValidateIdle
  /\ AdapterIdle
  /\ HostIdle
  /\ program \in Programs
  /\ running = TRUE
  /\ stopped = FALSE
  /\ state = 0
  /\ pendingTimers = <<>>
  /\ timers = {}
  /\ nextTimerId = 1
  /\ stack = <<>>
  /\ aw = Await("call", "ok", 0, "")
  /\ trace = <<>>
  /\ returned = FALSE
  /\ stopCalls = 0

\* ---------------------------------------------------------------------
\* Actions
\* ---------------------------------------------------------------------
\* `void run()` (line 94): run() up to its first await, then runProgram
\* returns the controller (line 96).
\* runProgram whose run() reports a throw of the first applyOp call at
\* once, before the controller is returned.
RunProgramSyncCatch ==
  /\ aw.kind = "call"
  /\ returned' = TRUE
  /\ LET r == LoopHead(<<Frame(program.ops)>>,
                       Append(trace, Ev("onStatus", "Ejecutando...", 0)))
     IN \/ /\ Suspend(r, state)
           /\ running' = running
        \/ /\ r.at # "returned"
           /\ \E o \in AdapterCall(CurrentOp(r.stack), state) :
                /\ o.how = "throw"
                /\ state' = o.now
                /\ trace' = r.trace \o
                     <<Ev("applyOp", CurrentOp(r.stack).blockId, state),
                       Ev("throw", o.err, 0), Ev("onError", o.err, 0)>>
           /\ stack' = <<>>
           /\ running' = FALSE
           /\ aw' = Await("end", "ok", 0, "")
  /\ UNCHANGED <<program, adapter, others, stopped, pendingTimers, timers,
                 nextTimerId, stopCalls>>

RunProgram ==
  /\ aw.kind = "call"
  /\ returned' = TRUE
  /\ Suspend(LoopHead(<<Frame(program.ops)>>,
                      Append(trace, Ev("onStatus", "Ejecutando...", 0))),
             state)
  /\ UNCHANGED <<program, adapter, others, running, stopped, pendingTimers, timers,
                 nextTimerId, stopCalls>>

\* The promise a pending applyOp returned resolves or rejects.
ApplySettle ==
  /\ aw.kind = "apply"
  /\ aw.status = "pending"
  /\ \/ /\ aw' = Await("apply", "ok", AdapterNext(state), "")
        /\ trace' = trace
     \/ \E e \in Errors :
          /\ aw' = Await("apply", "err", 0, e)
          /\ trace' = Append(trace, Ev("throw", e, 0))
  /\ UNCHANGED <<program, adapter, others, running, stopped, state, pendingTimers, timers,
                 nextTimerId, stack, returned, stopCalls>>

\* sleep(ms) as a promise that is resolved at once, no timeout scheduled.
SleepNoDelay(ms) ==
  /\ timers' = timers
  /\ pendingTimers' = pendingTimers
  /\ aw' = Await("sleep", "ok", nextTimerId, "")
  /\ nextTimerId' = nextTimerId + 1

\* sleep(ms), lines 44-54: schedule the timeout and keep track of it.
Sleep(ms) ==
  /\ timers' = timers \cup {[id |-> nextTimerId, ms |-> ms]}
  /\ pendingTimers' = Append(pendingTimers, nextTimerId)
  /\ aw' = Await("sleep", "pending", nextTimerId, "")
  /\ nextTimerId' = nextTimerId + 1

\* ResumeApply with line 72 as `await adapter.applyOp(op, state)`, the
\* result not assigned.
ResumeApplyDropsResult ==
  /\ aw.kind = "apply"
  /\ \/ /\ aw.status = "ok"
        /\ CurrentOp(stack).kind = "wait"
        /\ state' = state
        /\ Sleep(MathMax(0, CurrentOp(stack).ms))
        /\ UNCHANGED <<stack, trace>>
     \/ /\ aw.status = "ok"
        /\ CurrentOp(stack).kind # "wait"
        /\ Suspend(LoopHead(NextOp(stack), trace), state)
        /\ UNCHANGED <<pendingTimers, timers, nextTimerId>>
     \/ /\ aw.status = "err"
        /\ stack' = Pop(stack)
        /\ aw' = CallerAwait(Pop(stack), "err", aw.err)
        /\ UNCHANGED <<state, trace, pendingTimers, timers, nextTimerId>>
  /\ UNCHANGED <<program, adapter, others, running, stopped, returned, stopCalls>>

\* The walk resumes after `await adapter.applyOp(op, state)` (lines 72-76).
ResumeApply ==
  /\ aw.kind = "apply"
  /\ \/ /\ aw.status = "ok"
        /\ CurrentOp(stack).kind = "wait"
        /\ state' = aw.val
        /\ Sleep(MathMax(0, CurrentOp(stack).ms))
        /\ UNCHANGED <<stack, trace>>
     \/ /\ aw.status = "ok"
        /\ CurrentOp(stack).kind # "wait"
        /\ Suspend(LoopHead(NextOp(stack), trace), aw.val)
        /\ UNCHANGED <<pendingTimers, timers, nextTimerId>>
     \/ /\ aw.status = "err"
        /\ stack' = Pop(stack)
        /\ aw' = CallerAwait(Pop(stack), "err", aw.err)
        /\ UNCHANGED <<state, trace, pendingTimers, timers, nextTimerId>>
  /\ UNCHANGED <<program, adapter, others, running, stopped, returned, stopCalls>>

\* The walk resumes after `await sleep(...)` (lines 74-76).
ResumeSleep ==
  /\ aw.kind = "sleep"
  /\ aw.status = "ok"
  /\ Suspend(LoopHead(NextOp(stack), trace), state)
  /\ UNCHANGED <<program, adapter, others, running, stopped, pendingTimers, timers,
                 nextTimerId, returned, stopCalls>>

\* ResumeBody with a rejected body treated like a completed one.
ResumeBodySwallow ==
  /\ aw.kind = "body"
  /\ Suspend(RepHead(SetTop(stack, [Top(stack) EXCEPT !.i = Top(stack).i + 1]),
                     Append(trace, Ev("iterEnd", CurrentOp(stack).blockId, 0))),
             state)
  /\ UNCHANGED <<program, adapter, others, running, stopped, pendingTimers, timers,
                 nextTimerId, returned, stopCalls>>

\* The repeat loop resumes after `await runOps(op.body)` (lines 68-70).
ResumeBody ==
  /\ aw.kind = "body"
  /\ \/ /\ aw.status = "ok"
        /\ Suspend(RepHead(SetTop(stack, [Top(stack) EXCEPT !.i = Top(stack).i + 1]),
                           Append(trace, Ev("iterEnd", CurrentOp(stack).blockId, 0))),
                   state)
     \/ /\ aw.status = "err"
        /\ stack' = Pop(stack)
        /\ aw' = CallerAwait(Pop(stack), "err", aw.err)
        /\ UNCHANGED <<state, trace>>
  /\ UNCHANGED <<program, adapter, others, running, stopped, pendingTimers, timers,
                 nextTimerId, returned, stopCalls>>

\* ResumeRun with the two completion notifications in the other order.
ResumeRunSwapped ==
  /\ aw.kind = "root"
  /\ \/ /\ aw.status = "ok"
        /\ trace' = IF ~stopped
                    THEN trace \o <<Ev("onStatus", "Finalizado.", 0),
                                    Ev("onDone", "", 0)>>
                    ELSE trace
     \/ /\ aw.status = "err"
        /\ trace' = Append(trace, Ev("onError", aw.err, 0))
  /\ running' = FALSE
  /\ aw' = Await("end", "ok", 0, "")
  /\ UNCHANGED <<program, adapter, others, stopped, state, pendingTimers, timers, nextTimerId,
                 stack, returned, stopCalls>>

\* ResumeRun without the stopped check of line 83.
ResumeRunIgnoreStopped ==
  /\ aw.kind = "root"
  /\ \/ /\ aw.status = "ok"
        /\ trace' = trace \o <<Ev("onDone", "", 0),
                                Ev("onStatus", "Finalizado.", 0)>>
     \/ /\ aw.status = "err"
        /\ trace' = Append(trace, Ev("onError", aw.err, 0))
  /\ running' = FALSE
  /\ aw' = Await("end", "ok", 0, "")
  /\ UNCHANGED <<program, adapter, others, stopped, state, pendingTimers, timers, nextTimerId,
                 stack, returned, stopCalls>>

\* ResumeRun without the finally block of lines 89-91.
ResumeRunKeepsRunning ==
  /\ aw.kind = "root"
  /\ \/ /\ aw.status = "ok"
        /\ trace' = IF ~stopped
                    THEN trace \o <<Ev("onDone", "", 0),
                                    Ev("onStatus", "Finalizado.", 0)>>
                    ELSE trace
     \/ /\ aw.status = "err"
        /\ trace' = Append(trace, Ev("onError", aw.err, 0))
  /\ aw' = Await("end", "ok", 0, "")
  /\ UNCHANGED <<program, adapter, others, running, stopped, state, pendingTimers, timers,
                 nextTimerId, stack, returned, stopCalls>>

\* run() whose catch resets the state before reporting the error.
ResumeRunRollsBack ==
  /\ aw.kind = "root"
  /\ \/ /\ aw.status = "ok"
        /\ trace' = IF ~stopped
                    THEN trace \o <<Ev("onDone", "", 0),
                                    Ev("onStatus", "Finalizado.", 0)>>
                    ELSE trace
        /\ state' = state
     \/ /\ aw.status = "err"
        /\ trace' = Append(trace, Ev("onError", aw.err, 0))
        /\ state' = IF adapter = "maze" THEN reset(state) ELSE 0
  /\ running' = FALSE
  /\ aw' = Await("end", "ok", 0, "")
  /\ UNCHANGED <<program, adapter, others, stopped, pendingTimers, timers,
                 nextTimerId, stack, returned, stopCalls>>

\* run() resumes after `await runOps(program.ops)` (lines 82-91).
ResumeRun ==
  /\ aw.kind = "root"
  /\ \/ /\ aw.status = "ok"
        /\ trace' = IF ~stopped
                    THEN trace \o <<Ev("onDone", "", 0),
                                    Ev("onStatus", "Finalizado.", 0)>>
                    ELSE trace
     \/ /\ aw.status = "err"
        /\ trace' = Append(trace, Ev("onError", aw.err, 0))
  /\ running' = FALSE
  /\ aw' = Await("end", "ok", 0, "")
  /\ UNCHANGED <<program, adapter, others, stopped, state, pendingTimers, timers, nextTimerId,
                 stack, returned, stopCalls>>

\* timer.resolve(): the promise of sleep number id is resolved.
Resolve(a, id) ==
  IF a.kind = "sleep" /\ a.status = "pending" /\ a.val = id
  THEN Await("sleep", "ok", id, "")
  ELSE a

\* The callback of a scheduled timeout runs (lines 46-52).
TimerFire ==
  /\ \E t \in timers :
       /\ timers' = timers \ {t}
       /\ pendingTimers' = SelectSeq(pendingTimers, LAMBDA id : id # t.id)
       /\ aw' = Resolve(aw, t.id)
       /\ trace' = Append(trace, Ev("timeout", t.id, 0))
  /\ UNCHANGED <<program, adapter, others, running, stopped, state, nextTimerId, stack,
                 returned, stopCalls>>

RECURSIVE ResolveAll(_, _)
ResolveAll(a, ids) ==
  IF ids = <<>> THEN a ELSE ResolveAll(Resolve(a, Head(ids)), Tail(ids))

\* clearTimers that clears the timeouts and forgets timer.resolve().
clearTimersNoResolve ==
  /\ timers' = {t \in timers : \A n \in 1..Len(pendingTimers) : pendingTimers[n] # t.id}
  /\ aw' = aw
  /\ pendingTimers' = <<>>

\* clearTimers, lines 36-42.
clearTimers ==
  /\ timers' = {t \in timers : \A n \in 1..Len(pendingTimers) : pendingTimers[n] # t.id}
  /\ aw' = ResolveAll(aw, pendingTimers)
  /\ pendingTimers' = <<>>

\* stop() without the guard of lines 98-100.
StopNoGuard ==
  /\ returned
  /\ stopCalls < MaxStopCalls
  /\ stopCalls' = stopCalls + 1
  /\ stopped' = TRUE
  /\ running' = FALSE
  /\ clearTimers
  /\ trace' = Append(trace, Ev("onStatus", "Detenido.", 0))
  /\ UNCHANGED <<program, adapter, others, state, nextTimerId, stack, returned>>

\* stop() that leaves running as it is (line 100 missing).
StopKeepsRunning ==
  /\ returned
  /\ stopCalls < MaxStopCalls
  /\ stopCalls' = stopCalls + 1
  /\ IF ~running
     THEN UNCHANGED <<running, stopped, pendingTimers, timers, aw, trace>>
     ELSE /\ stopped' = TRUE
          /\ running' = running
          /\ clearTimers
          /\ trace' = Append(trace, Ev("onStatus", "Detenido.", 0))
  /\ UNCHANGED <<program, adapter, others, state, nextTimerId, stack, returned>>

\* controller.stop(), lines 97-105.
Stop ==
  /\ returned
  /\ stopCalls < MaxStopCalls
  /\ stopCalls' = stopCalls + 1
  /\ IF ~running
     THEN UNCHANGED <<running, stopped, pendingTimers, timers, aw, trace>>
     ELSE /\ stopped' = TRUE
          /\ running' = FALSE
          /\ clearTimers
          /\ trace' = Append(trace, Ev("onStatus", "Detenido.", 0))
  /\ UNCHANGED <<program, adapter, others, state, nextTimerId, stack, returned>>

\* controller.isRunning(), line 106.
isRunning == running

Next ==
  \/ RunProgram
  \/ ApplySettle
  \/ ResumeApply
  \/ ResumeSleep
  \/ ResumeBody
  \/ ResumeRun
  \/ TimerFire
  \/ Stop

Spec == Init /\ [][Next]_vars

\* The runtime when no program runs.
RuntimeIdle ==
  /\ program = [ops |-> <<>>]
  /\ running = FALSE
  /\ stopped = FALSE
  /\ state = 0
  /\ pendingTimers = <<>>
  /\ timers = {}
  /\ nextTimerId = 1
  /\ stack = <<>>
  /\ aw = Await("end", "ok", 0, "")
  /\ trace = <<>>
  /\ returned = FALSE
  /\ stopCalls = 0

runtimeVars ==
  <<program, running, stopped, state, pendingTimers, timers, nextTimerId,
    stack, aw, trace, returned, stopCalls>>

\* ---------------------------------------------------------------------
\* The validator (core/compiler/validate.ts)
\* ---------------------------------------------------------------------
MAX_OPS == 200

\* What validateProgram throws.
ErrEmpty == "El programa está vacío."
ErrNoStart == "El programa debe empezar con start."
ErrTooLong == "Programa demasiado largo (máximo 200 ops)."
\* Reading program.ops[0].kind of an empty program.
ErrType == "TypeError"

\* validateProgram without the check of line 18.
validateProgramNoEmptyCheck(p) ==
  IF Len(p.ops) = 0 THEN ErrType
  ELSE IF p.ops[1].kind # "start" THEN ErrNoStart
  ELSE IF countOps(p.ops) > MAX_OPS THEN ErrTooLong
  ELSE ""

\* validateProgram refusing a program of MAX_OPS ops.
validateProgramOffByOne(p) ==
  IF Len(p.ops) = 0 THEN ErrEmpty
  ELSE IF p.ops[1].kind # "start" THEN ErrNoStart
  ELSE IF countOps(p.ops) >= MAX_OPS THEN ErrTooLong
  ELSE ""

\* validateProgram without the check of lines 21-23.
validateProgramNoStartCheck(p) ==
  IF Len(p.ops) = 0 THEN ErrEmpty
  ELSE IF countOps(p.ops) > MAX_OPS THEN ErrTooLong
  ELSE ""

\* validateProgram(program), lines 17-28: the message of the error thrown,
\* "" when it returns.
validateProgram(p) ==
  IF Len(p.ops) = 0 THEN ErrEmpty
  ELSE IF p.ops[1].kind # "start" THEN ErrNoStart
  ELSE IF countOps(p.ops) > MAX_OPS THEN ErrTooLong
  ELSE ""

\* Programs around the size limit: an optional first op, a run of moves
\* and an optional repeat whose body nests another repeat.
MaxPad == 2

Moves(n) == [k \in 1..n |-> MoveOp]

PadSizes == (0..MaxPad) \cup ((MAX_OPS - MaxPad - 4)..(MAX_OPS + MaxPad))

ValidateHeads ==
  {<<>>, <<StartOp>>, <<MoveOp>>, <<TurnOp>>,
   <<RepeatOp(<<3, 2>>, <<StartOp>>)>>}

ValidateBodies ==
  {<<>>, <<MoveOp>>,
   <<MoveOp, RepeatOp(<<4, 2>>, <<TurnOp, WaitOp(500)>>)>>}

ValidateTails ==
  {<<>>} \cup {<<RepeatOp(t, b)>> : t \in TimesSet, b \in ValidateBodies}

ValidateInputs ==
  {[ops |-> h \o Moves(n) \o t] :
     h \in ValidateHeads, n \in PadSizes, t \in ValidateTails}

InitValidate ==
  /\ adapter = "generic"
  /\ RuntimeIdle
  /\ AdapterIdle
  /\ HostIdle
  /\ vIn \in ValidateInputs
  /\ vOut = "idle"

\* A caller calls validateProgram(vIn).
Validate ==
  /\ vOut = "idle"
  /\ vOut' = validateProgram(vIn)
  /\ vIn' = vIn
  /\ UNCHANGED <<runtimeVars, adapter, ad, hWorkspace, hController, hClicks, hOld>>

NextValidate == Validate

SpecValidate == InitValidate /\ [][NextValidate]_vars

\* ---------------------------------------------------------------------
\* The runtime driving the maze adapter
\* ---------------------------------------------------------------------
\* The ops after the start op of a maze program.
MaxMazeLen == 3

MazeOps ==
  {MoveSteps(1), MoveSteps(5), MoveSteps(-1), TurnDir("left"),
   TurnDir("right"), WaitOp(500), RepeatOp(<<4, 2>>, <<MoveSteps(1)>>)}

RECURSIVE SeqsUpTo(_, _)
\* The sequences over S of length at most n.
SeqsUpTo(S, n) ==
  IF n = 0 THEN {<<>>}
  ELSE LET shorter == SeqsUpTo(S, n - 1)
       IN shorter \cup {Append(q, x) : q \in shorter, x \in S}

MazePrograms ==
  {[ops |-> Label(<<StartOp>> \o q, 1)] : q \in SeqsUpTo(MazeOps, MaxMazeLen)}

\* The state the host hands to runProgram (main.ts:187-191).
HostStates ==
  {[makeInitialState(l) EXCEPT !.status = "running", !.message = "Jugando..."] :
     l \in LevelIds}

\* runProgram(program, adapter, hooks, {initialState}) with the maze
\* adapter, after lines 31-34.
InitMaze ==
  /\ adapter = "maze"
  /\ ValidateIdle
  /\ AdapterIdle
  /\ HostIdle
  /\ program \in MazePrograms
  /\ running = TRUE
  /\ stopped = FALSE
  /\ state \in {reset(s) : s \in HostStates}
  /\ pendingTimers = <<>>
  /\ timers = {}
  /\ nextTimerId = 1
  /\ stack = <<>>
  /\ aw = Await("call", "ok", 0, "")
  /\ trace = <<>>
  /\ returned = FALSE
  /\ stopCalls = 0

\* The maze adapter returns no promise: ApplySettle has nothing to settle.
NextMaze ==
  \/ RunProgram
  \/ ResumeApply
  \/ ResumeSleep
  \/ ResumeBody
  \/ ResumeRun
  \/ TimerFire
  \/ Stop

SpecMaze == InitMaze /\ [][NextMaze]_vars

\* ---------------------------------------------------------------------
\* The maze adapter called by itself
\* ---------------------------------------------------------------------
\* The calls made to the adapter, and the largest coordinate tried.
MaxAdapterCalls == 2
MaxCoord == 2

\* A level id that is not in the table.
UnknownLevelId == 99

\* The states a caller may hand to the adapter (MazeState, lines 12-17).
AdapterStates ==
  [levelId : LevelIds \cup {UnknownLevelId},
   player : [x : 0..MaxCoord, y : 0..MaxCoord, dir : {"N", "E", "S", "W"}],
   status : {"idle", "running", "win", "error"},
   message : {Undefined, "Jugando...", "¡Choque!"}]

AdapterOps ==
  {StartOp, MoveSteps(1), MoveSteps(5), MoveSteps(-1), TurnDir("left"),
   TurnDir("right"), WaitOp(500)}

\* One call of the adapter as the log keeps it: the state before, the
\* state after and what was thrown.
Logged(call, op, before, after, thrown) ==
  [call |-> call, op |-> op, before |-> before, after |-> after,
   thrown |-> thrown]

InitAdapter ==
  /\ adapter = "maze"
  /\ RuntimeIdle
  /\ ValidateIdle
  /\ HostIdle
  /\ ad \in [st : AdapterStates, log : {<<>>}]

\* adapter.reset(ad.st)
AdapterReset ==
  /\ Len(ad.log) < MaxAdapterCalls
  /\ ad' = [st |-> reset(ad.st),
            log |-> Append(ad.log,
                           Logged("reset", StartOp, ad.st, reset(ad.st), ""))]
  /\ UNCHANGED <<runtimeVars, adapter, vIn, vOut, hWorkspace, hController, hClicks, hOld>>

\* adapter.applyOp(op, ad.st)
AdapterApplyOp ==
  /\ Len(ad.log) < MaxAdapterCalls
  /\ \E op \in AdapterOps :
       LET r == applyOp(op, ad.st)
       IN ad' = [st |-> r.state,
                 log |-> Append(ad.log,
                                Logged("applyOp", op, ad.st, r.state, r.thrown))]
  /\ UNCHANGED <<runtimeVars, adapter, vIn, vOut, hWorkspace, hController, hClicks, hOld>>

NextAdapter ==
  \/ AdapterReset
  \/ AdapterApplyOp

SpecAdapter == InitAdapter /\ [][NextAdapter]_vars

\* ---------------------------------------------------------------------
\* The host page (main.ts) with the maze app
\* ---------------------------------------------------------------------
\* mazeApp.compileOptions, mazeApp.ts:431-439
compileOptions ==
  [START_TYPES |-> {"event_whenflagclicked"},
   MOVE_TYPES |-> {"game_move"},
   BACK_TYPES |-> {"game_back"},
   TURN_LEFT_TYPES |-> {"game_turn_left"},
   TURN_RIGHT_TYPES |-> {"game_turn_right"},
   REPEAT_TYPES |-> {"game_repeat"},
   WAIT_TYPES |-> {"game_wait"}]

\* A block of the editor: its type tag, its id, the number in its field
\* and the blocks nested in it.
Block(type, id, value, child) ==
  [type |-> type, id |-> id, value |-> value, child |-> child]

RECURSIVE compileBlocks(_, _)
\* The ops of a chain of linked blocks: each block of a recognized type
\* becomes the op of its role and carries the block's id, the others are
\* skipped.
compileBlocks(blocks, options) ==
  LET recognized ==
        options.START_TYPES \cup options.MOVE_TYPES \cup options.BACK_TYPES
          \cup options.TURN_LEFT_TYPES \cup options.TURN_RIGHT_TYPES
          \cup options.REPEAT_TYPES \cup options.WAIT_TYPES
      kept == SelectSeq(blocks, LAMBDA b : b.type \in recognized)
      toOp(b) ==
        LET op ==
              IF b.type \in options.START_TYPES THEN StartOp
              ELSE IF b.type \in options.MOVE_TYPES THEN MoveSteps(b.value)
              ELSE IF b.type \in options.BACK_TYPES THEN MoveSteps(-b.value)
              ELSE IF b.type \in options.TURN_LEFT_TYPES THEN TurnDir("left")
              ELSE IF b.type \in options.TURN_RIGHT_TYPES THEN TurnDir("right")
              ELSE IF b.type \in options.REPEAT_TYPES
              THEN RepeatOp(<<b.value, 1>>, compileBlocks(b.child, options))
              ELSE WaitOp(b.value)
        IN [op EXCEPT !.blockId = b.id]
  IN [n \in 1..Len(kept) |-> toOp(kept[n])]

\* compileWorkspaceToAst(Blockly, workspace, options): the program of the
\* first top-level stack of the workspace.
compileWorkspaceToAst(workspace, options) ==
  IF workspace = <<>> THEN [ops |-> <<>>]
  ELSE [ops |-> compileBlocks(workspace[1], options)]

\* The top-level stacks a learner may have built.
Flag == Block("event_whenflagclicked", 1, 0, <<>>)

StackWin ==
  <<Flag, Block("game_move", 2, 1, <<>>), Block("game_turn_right", 3, 0, <<>>),
    Block("game_move", 4, 1, <<>>)>>
StackCrash == <<Flag, Block("game_move", 2, 5, <<>>)>>
StackRepeat ==
  <<Flag, Block("game_repeat", 2, 2, <<Block("game_turn_left", 3, 0, <<>>)>>),
    Block("game_wait", 4, 500, <<>>), Block("game_back", 5, 1, <<>>)>>
StackNoStart == <<Block("game_move", 1, 1, <<>>), Block("game_turn_left", 2, 0, <<>>)>>
StackNoteThenStart ==
  <<Block("math_number", 9, 7, <<>>), Flag, Block("game_wait", 2, 500, <<>>)>>
StackNoteThenMove ==
  <<Block("note", 9, 0, <<>>), Block("game_move", 2, 1, <<>>)>>
StackNote == <<Block("note", 9, 0, <<>>)>>
StackLong ==
  [n \in 1..(MAX_OPS + 1) |->
     IF n = 1 THEN Flag ELSE Block("game_move", n, 1, <<>>)]

Stacks ==
  {StackWin, StackCrash, StackRepeat, StackNoStart, StackNoteThenStart,
   StackNoteThenMove, StackNote, StackLong}

\* workspace.getTopBlocks(true): no stack, one, or a second one besides.
Workspaces ==
  {<<>>} \cup {<<a>> : a \in Stacks}
         \cup {<<a, b>> : a \in Stacks \ {StackLong},
                           b \in {StackWin, StackNoStart}}

RECURSIVE allBlocks(_)
\* workspace.getAllBlocks(false) of a chain of blocks.
allBlocks(blocks) ==
  IF blocks = <<>> THEN <<>>
  ELSE <<blocks[1]>> \o allBlocks(blocks[1].child)
         \o allBlocks(SubSeq(blocks, 2, Len(blocks)))

\* Types that start with "dropdown_" or "math_".
helperTypes == {"math_number", "dropdown_direction"}

\* mazeApp.checkConstraints, mazeApp.ts:383-409.  A level of the table
\* without a limit has maxBlocks -1.
checkConstraints(workspace, st) ==
  LET constraints == getLevel(st.levelId).constraints
      all == IF workspace = <<>> THEN <<>>
             ELSE allBlocks(workspace[1]) \o
                  (IF Len(workspace) > 1 THEN allBlocks(workspace[2]) ELSE <<>>)
      blockTypes ==
        SelectSeq(all, LAMBDA b : b.type \notin helperTypes
                                  /\ b.type # "event_whenflagclicked")
  IN IF constraints.maxBlocks >= 0 /\ Len(blockTypes) > constraints.maxBlocks
     THEN [ok |-> FALSE, message |-> "Usá máximo N bloques."]
     ELSE IF constraints.mustUseRepeat
             /\ ~\E n \in 1..Len(blockTypes) : blockTypes[n].type = "game_repeat"
     THEN [ok |-> FALSE, message |-> "Tenés que usar un bloque de repetir."]
     ELSE [ok |-> TRUE, message |-> ""]

\* The clicks handled in one behaviour.
MaxClicks == 2

\* The page after loading (main.ts:74-96): the state of some level, no
\* controller.  In this specification state is the one state object that
\* appState and the runtime's state both refer to (adapter.reset returns
\* the object it was given), and the runtime variables are those of the
\* run of the controller runtimeController holds.
InitHost ==
  /\ adapter = "maze"
  /\ ValidateIdle
  /\ AdapterIdle
  /\ HostIdle
  /\ program = [ops |-> <<>>]
  /\ running = FALSE
  /\ stopped = FALSE
  /\ state \in {makeInitialState(l) : l \in LevelIds}
  /\ pendingTimers = <<>>
  /\ timers = {}
  /\ nextTimerId = 1
  /\ stack = <<>>
  /\ aw = Await("end", "ok", 0, "")
  /\ trace = <<>>
  /\ returned = FALSE
  /\ stopCalls = 0

\* A click is handled when no continuation of the walk is queued: the
\* run has ended (or none was started) or it sleeps on a timer.
HostQuiescent ==
  /\ ~hOld.swapped
  /\ hOld.run.aw.kind = "end"
  /\ \/ aw.kind = "end"
     \/ aw.kind = "sleep" /\ aw.status = "pending"

Clicked(btn) == [n |-> hClicks.n + 1, last |-> btn]

\* The catch of the Run handler, lines 226-229.
RunCaught(message) ==
  /\ trace' = Append(trace, Ev("setStatusError", message, 0))
  /\ UNCHANGED <<program, running, stopped, state, pendingTimers, timers,
                 nextTimerId, stack, aw, returned, stopCalls, hController, hOld>>

\* checkConstraints refuses the workspace, lines 175-183.
RunRefused(message) ==
  /\ state' = [state EXCEPT !.status = "error", !.message = message]
  /\ trace' = Append(trace, Ev("setStatus", message, 0))
  /\ UNCHANGED <<program, running, stopped, pendingTimers, timers,
                 nextTimerId, stack, aw, returned, stopCalls, hController, hOld>>

\* The run the runtime variables stand for.
ThisRun ==
  RunOf(program, running, stopped, pendingTimers, stack, aw, returned, stopCalls)

\* What controller.stop() (runtime.ts:97-105) makes of run r.
stopRun(r) ==
  IF ~r.running THEN r
  ELSE [r EXCEPT !.stopped = TRUE, !.running = FALSE, !.pendingTimers = <<>>,
                 !.aw = ResolveAll(r.aw, r.pendingTimers)]

\* The timeouts left when stop() has cleared those of run r.
timersAfterStop(r) ==
  IF ~r.running THEN timers
  ELSE {t \in timers :
          \A n \in 1..Len(r.pendingTimers) : r.pendingTimers[n] # t.id}

\* The start of a new run, given what becomes of the previous run and of
\* the timeouts, the state runProgram starts from and the events so far.
NewRun(p, old, tm, st, tr) ==
  /\ program' = p
  /\ running' = TRUE
  /\ stopped' = FALSE
  /\ state' = st
  /\ pendingTimers' = <<>>
  /\ timers' = tm
  /\ nextTimerId' = nextTimerId
  /\ stack' = <<>>
  /\ aw' = Await("call", "ok", 0, "")
  /\ returned' = FALSE
  /\ stopCalls' = 0
  /\ hController' = hController + 1
  /\ hOld' = [run |-> old, swapped |-> FALSE]
  /\ trace' = tr

\* RunStarts with a runProgram that takes options.initialState as it is,
\* without calling adapter.reset.
RunStartsNoReset(p) ==
  LET marked == [reset(state) EXCEPT !.status = "running",
                                     !.message = "Jugando..."]
  IN NewRun(p, stopRun(ThisRun), timersAfterStop(ThisRun), marked,
            (IF running THEN <<Ev("onStatus", "Detenido.", 0)>> ELSE <<>>)
              \o <<Ev("reset", "host", state)>>)

\* RunStarts without `runtimeController?.stop()`.
RunStartsNoStop(p) ==
  LET marked == [reset(state) EXCEPT !.status = "running",
                                     !.message = "Jugando..."]
  IN NewRun(p, ThisRun, timers, reset(marked),
            <<Ev("reset", "host", state), Ev("reset", "runProgram", marked)>>)

\* Lines 186-224 up to `void run()` in runProgram: the previous run is
\* stopped, the state is reset and marked running, and runProgram resets
\* it again (runtime.ts:31-34).  The stopped run is kept in hOld with what
\* it still has queued; the events of the new run start a new trace.
RunStarts(p) ==
  LET marked == [reset(state) EXCEPT !.status = "running",
                                     !.message = "Jugando..."]
  IN NewRun(p, stopRun(ThisRun), timersAfterStop(ThisRun), reset(marked),
            (IF running THEN <<Ev("onStatus", "Detenido.", 0)>> ELSE <<>>)
              \o <<Ev("reset", "host", state),
                   Ev("reset", "runProgram", marked)>>)

\* The Run handler stopping and resetting before it validates.
BtnRunResetsFirst ==
  /\ HostQuiescent
  /\ hClicks.n < MaxClicks
  /\ hClicks' = Clicked("run")
  /\ \E w \in Workspaces :
       LET p == compileWorkspaceToAst(w, compileOptions)
           v == validateProgram(p)
           c == checkConstraints(w, state)
       IN /\ hWorkspace' = w
          /\ IF v # ""
             THEN /\ trace' = Append(trace, Ev("setStatusError", v, 0))
                  /\ state' = reset(state)
                  /\ UNCHANGED <<program, running, stopped, pendingTimers,
                                 timers, nextTimerId, stack, aw, returned,
                                 stopCalls, hController, hOld>>
             ELSE IF ~c.ok THEN RunRefused(c.message)
             ELSE RunStarts(p)
  /\ UNCHANGED <<adapter, vIn, vOut, ad>>

\* The click handler of btnRun, lines 164-230, up to the start of the
\* walk; RunProgram is the rest of the same handler.
BtnRun ==
  /\ HostQuiescent
  /\ hClicks.n < MaxClicks
  /\ hClicks' = Clicked("run")
  /\ \E w \in Workspaces :
       LET p == compileWorkspaceToAst(w, compileOptions)
           v == validateProgram(p)
           c == checkConstraints(w, state)
       IN /\ hWorkspace' = w
          /\ IF v # "" THEN RunCaught(v)
             ELSE IF ~c.ok THEN RunRefused(c.message)
             ELSE RunStarts(p)
  /\ UNCHANGED <<adapter, vIn, vOut, ad>>

\* The click handler of btnStop, lines 232-240.
BtnStop ==
  /\ HostQuiescent
  /\ hClicks.n < MaxClicks
  /\ hClicks' = Clicked("stop")
  /\ IF hController > 0 /\ running
     THEN /\ stopped' = TRUE
          /\ running' = FALSE
          /\ clearTimers
          /\ stopCalls' = stopCalls + 1
          /\ trace' = trace \o <<Ev("onStatus", "Detenido.", 0),
                                  Ev("setStatus", "Detenido.", 0)>>
     ELSE /\ trace' = Append(trace, Ev("setStatus", "Detenido.", 0))
          /\ UNCHANGED <<stopped, running, pendingTimers, timers, aw, stopCalls>>
  /\ state' = [state EXCEPT !.status = "idle", !.message = "Detenido"]
  /\ UNCHANGED <<program, nextTimerId, stack, returned, adapter, vIn, vOut,
                 ad, hWorkspace, hController, hOld>>

\* switchGame(appId), lines 98-126, between the maze app and the practice
\* app, whose adapter is the same code: the run is stopped and appState
\* becomes the initial state of the other app or the state of its saved
\* project.
SwitchGame ==
  /\ HostQuiescent
  /\ hClicks.n < MaxClicks
  /\ hClicks' = Clicked("switch")
  /\ IF hController > 0 /\ running
     THEN /\ stopped' = TRUE
          /\ running' = FALSE
          /\ clearTimers
          /\ stopCalls' = stopCalls + 1
          /\ trace' = trace \o <<Ev("onStatus", "Detenido.", 0),
                                  Ev("setStatus", "listo", 0)>>
     ELSE /\ trace' = Append(trace, Ev("setStatus", "listo", 0))
          /\ UNCHANGED <<stopped, running, pendingTimers, timers, aw, stopCalls>>
  /\ state' \in {makeInitialState(l) : l \in LevelIds}
  /\ hWorkspace' = <<>>
  /\ UNCHANGED <<program, nextTimerId, stack, returned, adapter, vIn, vOut,
                 ad, hController, hOld>>

\* The event loop turns to the continuation of the other run: the
\* runtime variables and hOld change places.  No run is handed over in
\* the middle of the Run handler.
OtherRunTurn ==
  /\ aw.kind # "call"
  /\ hOld.swapped \/ hOld.run.aw.kind \notin {"end", "call"}
  /\ \/ hOld.run.aw.kind # "sleep"
     \/ hOld.run.aw.status # "pending"
     \/ hOld.swapped
  /\ program' = hOld.run.program
  /\ running' = hOld.run.running
  /\ stopped' = hOld.run.stopped
  /\ pendingTimers' = hOld.run.pendingTimers
  /\ stack' = hOld.run.stack
  /\ aw' = hOld.run.aw
  /\ returned' = hOld.run.returned
  /\ stopCalls' = hOld.run.stopCalls
  /\ hOld' = [run |-> ThisRun, swapped |-> ~hOld.swapped]
  /\ UNCHANGED <<state, timers, nextTimerId, trace, adapter, vIn, vOut, ad,
                 hWorkspace, hController, hClicks>>

\* The callback of a timeout runs, as in TimerFire, for the run that
\* scheduled it; a timeout is a task of the event loop like a click.
HostTimerFire ==
  /\ ~hOld.swapped
  /\ hOld.run.aw.kind = "end" \/ hOld.run.aw.status = "pending"
  /\ aw.kind = "end" \/ aw.status = "pending"
  /\ \E t \in timers :
       /\ timers' = timers \ {t}
       /\ pendingTimers' = SelectSeq(pendingTimers, LAMBDA id : id # t.id)
       /\ aw' = Resolve(aw, t.id)
       /\ hOld' = [hOld EXCEPT
                     !.run.pendingTimers =
                        SelectSeq(hOld.run.pendingTimers, LAMBDA id : id # t.id),
                     !.run.aw = IF \E n \in 1..Len(hOld.run.pendingTimers) :
                                     hOld.run.pendingTimers[n] = t.id
                                THEN Resolve(hOld.run.aw, t.id)
                                ELSE hOld.run.aw]
       /\ trace' = Append(trace, Ev("timeout", t.id, 0))
  /\ UNCHANGED <<program, running, stopped, state, nextTimerId, stack,
                 returned, stopCalls, adapter, vIn, vOut, ad, hWorkspace,
                 hController, hClicks>>

NextHost ==
  \/ BtnRun
  \/ RunProgram
  \/ ResumeApply
  \/ ResumeSleep
  \/ ResumeBody
  \/ ResumeRun
  \/ HostTimerFire
  \/ OtherRunTurn
  \/ BtnStop
  \/ SwitchGame

SpecHost == InitHost /\ [][NextHost]_vars

\* ---------------------------------------------------------------------
\* Reading the trace
\* ---------------------------------------------------------------------
CountEv(tr, ev) == Len(SelectSeq(tr, LAMBDA e : e.ev = ev))
CountStatus(tr, text) ==
  Len(SelectSeq(tr, LAMBDA e : e.ev = "onStatus" /\ e.arg = text))
HasEv(tr, ev) == \E n \in 1..Len(tr) : tr[n].ev = ev
HasStatus(tr, text) ==
  \E n \in 1..Len(tr) : tr[n].ev = "onStatus" /\ tr[n].arg = text

\* The onStep and applyOp events of tr, as <<name, blockId>> pairs.
StepApply(tr) ==
  LET sel == SelectSeq(tr, LAMBDA e : e.ev \in {"onStep", "applyOp"})
  IN [n \in 1..Len(sel) |-> <<sel[n].ev, sel[n].arg>>]

IsPrefix(s, t) == Len(s) <= Len(t) /\ SubSeq(t, 1, Len(s)) = s

RECURSIVE Replicate(_, _)
Replicate(s, n) == IF n <= 0 THEN <<>> ELSE s \o Replicate(s, n - 1)

\* max(0, floor(N)) of a rational with a positive denominator: 0 for
\* N <= 0 and for 0 < N < 1, the integer part of N otherwise.
ExpectedTimes(q) ==
  IF q[1] <= 0 \/ q[1] < q[2] THEN 0
  ELSE CHOOSE n \in 1..q[1] : n * q[2] <= q[1] /\ q[1] < (n + 1) * q[2]

RECURSIVE Unrolled(_)
\* The depth-first order of an op sequence with every repeat body unrolled.
Unrolled(ops) ==
  IF ops = <<>> THEN <<>>
  ELSE LET op == Head(ops)
       IN (IF op.kind = "repeat"
           THEN <<<<"onStep", op.blockId>>>>
                  \o Replicate(Unrolled(op.body), ExpectedTimes(op.times))
           ELSE <<<<"onStep", op.blockId>>, <<"applyOp", op.blockId>>>>)
          \o Unrolled(Tail(ops))

RECURSIVE Nodes(_)
\* Every op node of an op sequence.
Nodes(ops) ==
  IF ops = <<>> THEN {}
  ELSE {Head(ops)} \cup Nodes(Head(ops).body) \cup Nodes(Tail(ops))

\* No stop() has taken effect and the adapter has raised nothing.
Undisturbed == ~stopped /\ ~HasEv(trace, "throw")

\* The positions in the trace of the iteration marks of repeat op r.
IterMarks(r) ==
  SelectSeq([n \in 1..Len(trace) |-> n],
            LAMBDA n : trace[n].ev \in {"iterBegin", "iterEnd"}
                       /\ trace[n].arg = r.blockId)

\* ---------------------------------------------------------------------
\* Claims
\* ---------------------------------------------------------------------

\* C1: in a run with no stop and no adapter error, the onStep and applyOp
\* calls made so far are a prefix of the depth-first order of the op tree
\* with every repeat body unrolled, onStep(blockId) right before its
\* applyOp, and once the run is over they are that whole order.
C1_DepthFirstOrder ==
  Undisturbed =>
    /\ IsPrefix(StepApply(trace), Unrolled(program.ops))
    /\ aw.kind = "end" => StepApply(trace) = Unrolled(program.ops)

\* A completed run of a repeat nested in a repeat, both with two iterations.
C1_Witness ==
  /\ Undisturbed
  /\ aw.kind = "end"
  /\ CountEv(trace, "iterBegin") >= 6
  /\ CountEv(trace, "applyOp") >= 4

\* C2: in a run that is neither stopped nor aborted, the body of a repeat
\* op is run max(0, floor(times)) times each time the op is reached, an
\* iteration ends before the next one begins, and every iteration runs the
\* whole body in order.
C2_RepeatUnrolling ==
  Undisturbed =>
    \A r \in {o \in Nodes(program.ops) : o.kind = "repeat"} :
      LET m == IterMarks(r)
          reached == Len(SelectSeq(trace, LAMBDA e : e.ev = "onStep" /\ e.arg = r.blockId))
      IN /\ \A n \in 1..Len(m) :
              trace[m[n]].ev = IF n % 2 = 1 THEN "iterBegin" ELSE "iterEnd"
         /\ \A n \in 1..Len(m) :
              (n % 2 = 0) =>
                StepApply(SubSeq(trace, m[n - 1] + 1, m[n] - 1)) = Unrolled(r.body)
         /\ Len(m) <= 2 * reached * ExpectedTimes(r.times)
         /\ aw.kind = "end" => Len(m) = 2 * reached * ExpectedTimes(r.times)

\* A completed run in which a repeat with a fractional count (3/2) ran its
\* non-empty body once, and one in which a repeat ran it twice.
C2_Witness ==
  /\ Undisturbed
  /\ aw.kind = "end"
  /\ \E r \in Nodes(program.ops) :
       /\ r.kind = "repeat"
       /\ r.times = <<3, 2>>
       /\ r.body # <<>>
       /\ Len(IterMarks(r)) = 2

\* C3: when the walk completes with no stop and no adapter error, onDone
\* and then onStatus("Finalizado.") are the last two notifications, each
\* emitted once, after every applyOp has resolved and every wait delay has
\* elapsed; before the walk is over neither is emitted.
C3_DoneThenFinalizado ==
  /\ (Undisturbed /\ aw.kind = "end") =>
       /\ Len(trace) >= 2
       /\ trace[Len(trace) - 1].ev = "onDone"
       /\ trace[Len(trace)].ev = "onStatus"
       /\ trace[Len(trace)].arg = "Finalizado."
       /\ CountEv(trace, "onDone") = 1
       /\ CountStatus(trace, "Finalizado.") = 1
       /\ stack = <<>>
       /\ timers = {}
       /\ pendingTimers = <<>>
       /\ CountEv(trace, "timeout")
            = Len(SelectSeq(Unrolled(program.ops),
                            LAMBDA c : c[1] = "applyOp"
                              /\ \E o \in Nodes(program.ops) :
                                   o.blockId = c[2] /\ o.kind = "wait"))
  /\ (HasEv(trace, "onDone") \/ HasStatus(trace, "Finalizado.")) => aw.kind = "end"

\* A completed run that ended with a wait op.
C3_Witness ==
  /\ Undisturbed
  /\ aw.kind = "end"
  /\ HasEv(trace, "onDone")
  /\ HasEv(trace, "timeout")

\* C4: once stop() has been called on an active run, onStatus("Detenido.")
\* has been emitted and onDone and onStatus("Finalizado.") are never
\* emitted.
C4_StopSuppressesDone ==
  /\ stopped =>
       /\ HasStatus(trace, "Detenido.")
       /\ ~HasEv(trace, "onDone")
       /\ ~HasStatus(trace, "Finalizado.")
  /\ (stopCalls > 0 /\ ~stopped) => ~HasStatus(trace, "Detenido.")

\* A stopped run whose walk has come to its end after at least one op.
C4_Witness ==
  /\ stopped
  /\ aw.kind = "end"
  /\ HasEv(trace, "applyOp")
  /\ ~HasEv(trace, "throw")

C6_NoTimerAfterStop ==
  stopped => (timers = {} /\ pendingTimers = <<>>)

\* C7: stop() called during a pending wait delay cancels the timeout and
\* resolves the delay at once, and the walk resumed from a delay after a
\* stop ends the runOps invocation without another onStep or applyOp.
C7_StopCancelsWait ==
  [][/\ (~stopped /\ stopped' /\ aw.kind = "sleep" /\ aw.status = "pending") =>
          /\ aw'.kind = "sleep"
          /\ aw'.status = "ok"
          /\ timers' = {}
          /\ pendingTimers' = <<>>
          /\ CountEv(trace', "timeout") = CountEv(trace, "timeout")
     /\ (stopped /\ aw.kind = "sleep" /\ aw.status = "ok" /\ aw' # aw) =>
          /\ Len(stack') < Len(stack)
          /\ StepApply(trace') = StepApply(trace)
          /\ aw'.kind \in {"body", "root"}
          /\ aw'.status = "ok"]_vars

\* A delay cancelled by stop(): resolved although its timeout never fired.
C7_Witness ==
  /\ stopped
  /\ aw.kind = "sleep"
  /\ aw.status = "ok"
  /\ timers = {}
  /\ ~HasEv(trace, "timeout")

\* C8: once adapter.applyOp has raised an error, the failing applyOp is the
\* last op of the run, onDone and onStatus("Finalizado.") are never
\* emitted, onError is emitted at most once and with the raised value, and
\* exactly once by the time the run is over; onError is emitted for nothing
\* else.
C8_ErrorAborts ==
  /\ HasEv(trace, "onError") => HasEv(trace, "throw")
  /\ HasEv(trace, "throw") =>
       LET p == CHOOSE n \in 1..Len(trace) : trace[n].ev = "throw"
       IN /\ CountEv(trace, "throw") = 1
          /\ StepApply(trace)[Len(StepApply(trace))][1] = "applyOp"
          /\ \A n \in (p + 1)..Len(trace) : trace[n].ev \notin {"onStep", "applyOp", "iterBegin"}
          /\ ~HasEv(trace, "onDone")
          /\ ~HasStatus(trace, "Finalizado.")
          /\ CountEv(trace, "onError") <= 1
          /\ \A n \in 1..Len(trace) :
               trace[n].ev = "onError" => (n > p /\ trace[n].arg = trace[p].arg)
          /\ aw.kind = "end" => CountEv(trace, "onError") = 1

\* An error raised two repeats deep and delivered to onError.
C8_Witness ==
  /\ aw.kind = "end"
  /\ HasEv(trace, "onError")
  /\ Len(program.ops) = 1
  /\ program.ops[1].kind = "repeat"
  /\ Len(program.ops[1].body) = 1
  /\ program.ops[1].body[1].kind = "repeat"
  /\ CountEv(trace, "applyOp") >= 2

\* The run has reached a terminal state: stopped, done or errored.
Terminal ==
  HasStatus(trace, "Detenido.") \/ HasEv(trace, "onDone") \/ HasEv(trace, "onError")

\* C9: isRunning() is true from the return of runProgram until the run is
\* stopped, done or errored, false from then on, and never true again.
C9_IsRunning ==
  /\ [](isRunning <=> ~Terminal)
  /\ [][~isRunning => ~isRunning']_vars

\* A run that has completed: onDone delivered and isRunning() false.
C9_Witness ==
  /\ returned
  /\ ~isRunning
  /\ ~stopped
  /\ HasEv(trace, "onDone")

\* C10: stop() on a controller that is not running emits nothing and
\* leaves the timers, the walk and the running and stopped flags alone.
C10_StopWhenNotRunning ==
  [][(stopCalls' = stopCalls + 1 /\ ~running) =>
       /\ running' = running
       /\ stopped' = stopped
       /\ trace' = trace
       /\ timers' = timers
       /\ pendingTimers' = pendingTimers
       /\ aw' = aw
       /\ stack' = stack
       /\ state' = state]_vars

\* stop() was called on a run that had ended by itself.
C10_Witness ==
  /\ stopCalls > 0
  /\ ~stopped
  /\ aw.kind = "end"

\* C11 as stated: no onStep and no adapter.applyOp call takes place before
\* runProgram has returned its controller.
C11_AfterReturn ==
  [][~returned => StepApply(trace') = StepApply(trace)]_vars

\* C11 amended: runProgram returns its controller without waiting for the
\* program to finish, and before it returns the walk runs only up to its
\* first suspension point: onStatus("Ejecutando...") first, the onStep of
\* the ops up to the first op handed to the adapter, and at most that one
\* applyOp call; onDone, onError and "Finalizado." come after the return
\* and the run has not ended when runProgram returns.
C11_SyncPrefix ==
  /\ [](~returned => trace = <<>>)
  /\ [][~returned =>
         /\ returned'
         /\ running'
         /\ aw'.kind # "end"
         /\ trace'[1].ev = "onStatus"
         /\ trace'[1].arg = "Ejecutando..."
         /\ CountStatus(trace', "Ejecutando...") = 1
         /\ ~HasEv(trace', "onDone")
         /\ ~HasEv(trace', "onError")
         /\ ~HasStatus(trace', "Finalizado.")
         /\ CountEv(trace', "applyOp") <= 1
         /\ CountEv(trace', "applyOp") = 1 =>
              StepApply(trace')[Len(StepApply(trace'))][1] = "applyOp"]_vars

\* runProgram has just returned with the first op already handed to the
\* adapter, and nobody has called stop().
C11_Witness ==
  /\ returned
  /\ stopCalls = 0
  /\ aw.kind = "apply"
  /\ CountEv(trace, "onStep") >= 1
  /\ CountEv(trace, "applyOp") = 1
  /\ StepApply(trace)[Len(StepApply(trace))][1] = "applyOp"

RECURSIVE NodeCount(_), BodyCount(_, _)
\* The number of op nodes of an op sequence: its length plus the nodes
\* of the bodies of its repeat ops.
NodeCount(ops) ==
  Len(ops) + BodyCount(ops, {n \in 1..Len(ops) : ops[n].kind = "repeat"})

BodyCount(ops, S) ==
  IF S = {} THEN 0
  ELSE LET n == CHOOSE n \in S : TRUE
       IN NodeCount(ops[n].body) + BodyCount(ops, S \ {n})

\* validateProgram has been called and has returned or thrown.
Validated == vOut # "idle"

\* C12: validateProgram fails with the empty-program error if and only if
\* program.ops has length 0.
C12_EmptyIff ==
  Validated => (vOut = ErrEmpty <=> Len(vIn.ops) = 0)

C12_Witness ==
  /\ Validated
  /\ Len(vIn.ops) = 0
  /\ vOut = ErrEmpty

\* C13 as stated: validateProgram fails with the too-long error if and
\* only if the program has more than 200 op nodes, for every program.
C13_TooLongIff ==
  Validated => (vOut = ErrTooLong <=> NodeCount(vIn.ops) > 200)

\* C13 amended: validateProgram fails with the too-long error if and only
\* if the program begins with a start op and has more than 200 op nodes,
\* nested repeat bodies included; a program of more than 200 nodes never
\* passes, one of exactly 200 beginning with start passes and one of 201
\* beginning with start fails with the too-long error.
C13_TooLongIffStartFirst ==
  Validated =>
    /\ vOut = ErrTooLong <=>
         /\ Len(vIn.ops) > 0
         /\ vIn.ops[1].kind = "start"
         /\ NodeCount(vIn.ops) > 200
    /\ NodeCount(vIn.ops) > 200 => vOut # ""
    /\ Len(vIn.ops) > 0 /\ vIn.ops[1].kind = "start" =>
         /\ NodeCount(vIn.ops) = 200 => vOut = ""
         /\ NodeCount(vIn.ops) = 201 => vOut = ErrTooLong

\* A program of 201 nodes, some of them nested two repeats deep, is
\* refused as too long.
C13_Witness ==
  /\ Validated
  /\ vOut = ErrTooLong
  /\ NodeCount(vIn.ops) = 201
  /\ Len(vIn.ops) < 201
  /\ \E n \in 1..Len(vIn.ops) :
       /\ vIn.ops[n].kind = "repeat"
       /\ \E m \in 1..Len(vIn.ops[n].body) :
            vIn.ops[n].body[m].kind = "repeat"

\* vIn with the times of every top-level repeat set to t.
WithTimes(p, t) ==
  [ops |-> [n \in 1..Len(p.ops) |->
              IF p.ops[n].kind = "repeat"
              THEN [p.ops[n] EXCEPT !.times = t] ELSE p.ops[n]]]

\* C14: validateProgram returns normally if and only if the program is
\* non-empty, its first op is a start op and it has at most 200 op nodes;
\* a non-empty program not beginning with start fails with the
\* must-start error; Repeat.times has no part in the count and the
\* program is left as it was.
C14_ReturnsIff ==
  /\ [](Validated =>
         /\ vOut = "" <=>
              /\ Len(vIn.ops) > 0
              /\ vIn.ops[1].kind = "start"
              /\ NodeCount(vIn.ops) <= 200
         /\ Len(vIn.ops) > 0 /\ vIn.ops[1].kind # "start" => vOut = ErrNoStart
         /\ \A t \in TimesSet : countOps(WithTimes(vIn, t).ops) = countOps(vIn.ops))
  /\ [][vIn' = vIn]_vars

\* A program of exactly 200 nodes with a repeat of 2 iterations passes.
C14_Witness ==
  /\ Validated
  /\ vOut = ""
  /\ NodeCount(vIn.ops) = 200
  /\ \E n \in 1..Len(vIn.ops) :
       /\ vIn.ops[n].kind = "repeat"
       /\ vIn.ops[n].times = <<4, 2>>
       /\ vIn.ops[n].body # <<>>

\* The op node of the program whose block is id.
OpAt(id) == CHOOSE o \in Nodes(program.ops) : o.blockId = id

\* The applyOp events of the trace.
Applied(tr) == SelectSeq(tr, LAMBDA e : e.ev = "applyOp")

\* The number of turn ops handed to the adapter, by direction.
TurnsApplied(tr, d) ==
  Len(SelectSeq(Applied(tr),
                LAMBDA e : OpAt(e.arg).kind = "turn" /\ OpAt(e.arg).direction = d))

\* The facing reached from facing d by r quarter turns to the right.
Compass == <<"N", "E", "S", "W">>
Facing(d, r) ==
  Compass[(((CHOOSE n \in 1..4 : Compass[n] = d) - 1 + r) % 4) + 1]

\* The cell is inside the grid and holds no wall.
Free(level, x, y) ==
  /\ x \in 0..(level.gridW - 1)
  /\ y \in 0..(level.gridH - 1)
  /\ [x |-> x, y |-> y] \notin level.walls

\* The adapter throws e in this step.
Throws(e) ==
  /\ Len(trace') > Len(trace)
  /\ trace'[Len(trace')].ev = "throw"
  /\ trace'[Len(trace')].arg = e

\* The run has ended with onError(e).
EndedWith(e) ==
  /\ aw.kind = "end"
  /\ \E n \in 1..Len(trace) : trace[n].ev = "onError" /\ trace[n].arg = e

\* C16: an adapter error rolls nothing back.  A Move of k steps colliding
\* at step j leaves the agent on the cell reached after j-1 steps, its
\* facing as before, status "error"; the state changes only inside applyOp
\* calls and never after a throw, so what earlier ops did stays: at any
\* time the facing is the start facing turned by the turns applied.
C16_NoRollback ==
  /\ [][Throws("CHOQUE") =>
         LET call == trace'[Len(trace') - 1]
             op == OpAt(call.arg)
             pre == call.st
             level == getLevel(pre.levelId)
             sign == IF op.steps >= 0 THEN 1 ELSE -1
             dx == DIR_DELTAS[pre.player.dir].x * sign
             dy == DIR_DELTAS[pre.player.dir].y * sign
         IN /\ call.ev = "applyOp"
            /\ op.kind = "move"
            /\ pre = state
            /\ state'.status = "error"
            /\ state'.levelId = pre.levelId
            /\ state'.player.dir = pre.player.dir
            /\ \E j \in 1..MathAbs(op.steps) :
                 /\ \A i \in 1..(j - 1) :
                      Free(level, pre.player.x + i * dx, pre.player.y + i * dy)
                 /\ ~Free(level, pre.player.x + j * dx, pre.player.y + j * dy)
                 /\ state'.player.x = pre.player.x + (j - 1) * dx
                 /\ state'.player.y = pre.player.y + (j - 1) * dy]_vars
  /\ [][state' # state =>
         CountEv(trace', "applyOp") = CountEv(trace, "applyOp") + 1]_vars
  /\ [][HasEv(trace, "throw") => state' = state]_vars
  /\ [](state.player.dir =
         Facing(makeInitialState(state.levelId).player.dir,
                TurnsApplied(trace, "right") + 3 * TurnsApplied(trace, "left")))
  /\ [](EndedWith("CHOQUE") => state.status = "error")

\* On level 1 the agent turned right twice and a Move of 5 steps took it
\* two cells down before colliding with the border; the run has ended.
C16_Witness ==
  /\ EndedWith("CHOQUE")
  /\ state.levelId = 1
  /\ state.status = "error"
  /\ state.player = [x |-> 0, y |-> 2, dir |-> "S"]
  /\ TurnsApplied(trace, "right") = 2
  /\ OpAt(Applied(trace)[Len(Applied(trace))].arg).steps = 5

\* The scenario program [Start, Move{1}, Turn{right}, Move{1}].
WinProgram ==
  [ops |-> Label(<<StartOp, MoveSteps(1), TurnDir("right"), MoveSteps(1)>>, 1)]

\* The player as the n-th applyOp call found it.
PlayerAtCall(n) == Applied(trace)[n].st.player

\* The run of the scenario program on level l, never stopped, has ended.
WinRunEnded(l) ==
  /\ program = WinProgram
  /\ state.levelId = l
  /\ ~stopped
  /\ aw.kind = "end"

\* The scenario outcome: the agent went through (0,1) facing north, faced
\* east there and reached (1,1), where the last move threw WIN; onError
\* got WIN, the status is "win" and onDone was not called.
WinOutcome ==
  /\ Len(Applied(trace)) = 4
  /\ PlayerAtCall(3) = [x |-> 0, y |-> 1, dir |-> "N"]
  /\ PlayerAtCall(4) = [x |-> 0, y |-> 1, dir |-> "E"]
  /\ state.player = [x |-> 1, y |-> 1, dir |-> "E"]
  /\ state.status = "win"
  /\ CountEv(trace, "onError") = 1
  /\ \E n \in 1..Len(trace) : trace[n].ev = "onError" /\ trace[n].arg = "WIN"
  /\ ~HasEv(trace, "onDone")

\* C17 as stated: on the 3x3 grid without walls, from (0,0) facing north
\* with the goal at (1,1) (level 1), the scenario program wins.
C17_WinFromOrigin ==
  WinRunEnded(1) => WinOutcome

\* C17 amended: north is towards smaller y, so the scenario wins when the
\* agent starts at (0,2) facing north (level 2); from (0,0) the first move
\* leaves the grid: it throws CHOQUE, the agent stays at (0,0), the status
\* is "error", onError gets CHOQUE and onDone is not called.
C17_WinFromBelow ==
  /\ WinRunEnded(2) => WinOutcome
  /\ WinRunEnded(1) =>
       /\ Len(Applied(trace)) = 2
       /\ state.player = [x |-> 0, y |-> 0, dir |-> "N"]
       /\ state.status = "error"
       /\ CountEv(trace, "onError") = 1
       /\ \E n \in 1..Len(trace) :
            trace[n].ev = "onError" /\ trace[n].arg = "CHOQUE"
       /\ ~HasEv(trace, "onDone")

C17_Witness ==
  /\ WinRunEnded(2)
  /\ state.status = "win"
  /\ HasEv(trace, "onError")
  /\ stopCalls = 0

\* The scenario program [Start, Move{5}].
CrashProgram == [ops |-> Label(<<StartOp, MoveSteps(5)>>, 1)]

\* The collision scenario, on the grid with a wall at (0,1) and the agent
\* at (0,0) facing south (level 3), has got as far as calling applyOp for
\* the move.
CrashMoveCalled ==
  /\ program = CrashProgram
  /\ state.levelId = 3
  /\ Len(Applied(trace)) = 2

\* C18: in the collision scenario applyOp throws CHOQUE on the check of
\* the first step's destination: the agent is still at (0,0) facing
\* south, the status is "error"; onDone is never called, and once the run
\* has ended onError has been called exactly once, with CHOQUE.
C18_CollisionScenario ==
  /\ program = CrashProgram /\ state.levelId = 3 =>
       /\ Len(Applied(trace)) <= 2
       /\ ~HasEv(trace, "onDone")
       /\ CountEv(trace, "onError") <= 1
       /\ Len(Applied(trace)) < 2 =>
            /\ state = makeInitialState(3)
            /\ ~HasEv(trace, "throw")
  /\ CrashMoveCalled =>
       /\ Applied(trace)[2].st.player = [x |-> 0, y |-> 0, dir |-> "S"]
       /\ CountEv(trace, "throw") = 1
       /\ \E n \in 1..Len(trace) :
            trace[n].ev = "throw" /\ trace[n].arg = "CHOQUE"
       /\ state.player = [x |-> 0, y |-> 0, dir |-> "S"]
       /\ state.status = "error"
       /\ aw.kind = "end" =>
            /\ CountEv(trace, "onError") = 1
            /\ \E n \in 1..Len(trace) :
                 trace[n].ev = "onError" /\ trace[n].arg = "CHOQUE"

C18_Witness ==
  /\ CrashMoveCalled
  /\ aw.kind = "end"
  /\ state.status = "error"
  /\ HasEv(trace, "onError")
  /\ stopCalls = 0

\* The level a level id stands for: the one of that id, the first of the
\* table when there is none.
LevelOf(id) ==
  IF id \in {levels[n].id : n \in 1..Len(levels)}
  THEN CHOOSE l \in {levels[n] : n \in 1..Len(levels)} : l.id = id
  ELSE levels[1]

\* The state a level starts in.
Fresh(l) ==
  [levelId |-> l.id,
   player |-> [x |-> l.start.x, y |-> l.start.y, dir |-> l.start.dir],
   status |-> "idle", message |-> "undefined"]

\* C19: reset depends only on the level and is idempotent.  Every reset
\* leaves the player at the start of the level of the state's levelId (the
\* first level when the id is unknown), status "idle", no message,
\* whatever the position, status and message were; a reset right after a
\* reset changes nothing.
C19_ResetIdempotent ==
  \A n \in 1..Len(ad.log) :
    ad.log[n].call = "reset" =>
      /\ ad.log[n].after = Fresh(LevelOf(ad.log[n].before.levelId))
      /\ ad.log[n].thrown = ""
      /\ n > 1 /\ ad.log[n - 1].call = "reset" =>
           ad.log[n].after = ad.log[n].before

\* A state of an unknown level, with a message and status "error", was
\* reset twice.
C19_Witness ==
  /\ Len(ad.log) = 2
  /\ ad.log[1].call = "reset"
  /\ ad.log[2].call = "reset"
  /\ ad.log[1].before.levelId = 99
  /\ ad.log[1].before.status = "error"
  /\ ad.log[1].before.message = "¡Choque!"
  /\ ad.log[1].before.player # levels[1].start
  /\ ad.st.levelId = 1

\* The step is a click on Run whose compiled program validateProgram
\* refuses with message m.
RunClickFails(m) ==
  /\ hClicks'.n = hClicks.n + 1
  /\ hClicks'.last = "run"
  /\ validateProgram(compileWorkspaceToAst(hWorkspace', compileOptions)) = m

\* C15: a click on Run whose program fails validateProgram invokes no
\* runtime: the state, the controller and the run it stands for are left
\* as they were, no reset and no applyOp is called, and the only thing
\* done is to show the error in the status text.
C15_ValidationStopsRun ==
  [][\A m \in {ErrEmpty, ErrNoStart, ErrTooLong} :
       RunClickFails(m) =>
         /\ state' = state
         /\ hController' = hController
         /\ program' = program
         /\ <<running, stopped, returned, stack, aw>>' =
              <<running, stopped, returned, stack, aw>>
         /\ <<pendingTimers, timers, nextTimerId>>' =
              <<pendingTimers, timers, nextTimerId>>
         /\ Len(trace') = Len(trace) + 1
         /\ \A n \in 1..Len(trace) : trace'[n].ev = trace[n].ev
         /\ trace'[Len(trace')].ev = "setStatusError"
         /\ trace'[Len(trace')].arg = m]_vars

\* A run sleeps on a timer, the learner clicked Run on a workspace whose
\* first stack has no start block, and the run is still there.
C15_Witness ==
  /\ hClicks.last = "run"
  /\ hController = 1
  /\ running
  /\ aw.kind = "sleep"
  /\ Len(trace) > 0
  /\ trace[Len(trace)].ev = "setStatusError"
  /\ trace[Len(trace)].arg = ErrNoStart

\* The step is a click on Run.
RunClick ==
  /\ hClicks'.n = hClicks.n + 1
  /\ hClicks'.last = "run"

\* The type tags the maze app gives a role to.
RoleTypes ==
  {"event_whenflagclicked", "game_move", "game_back", "game_turn_left",
   "game_turn_right", "game_repeat", "game_wait"}

\* The first top-level stack of workspace w begins with a start block.
BeginsWithStart(w) ==
  /\ Len(w) > 0
  /\ Len(w[1]) > 0
  /\ w[1][1].type = "event_whenflagclicked"

\* The types of the blocks of the first stack of w that have a role.
RoleBlocks(w) ==
  IF Len(w) = 0 THEN <<>>
  ELSE SelectSeq(w[1], LAMBDA b : b.type \in RoleTypes)

\* The program of the controller the host holds begins with a start op.
RunsStartFirst ==
  hController > 0 => Len(program.ops) > 0 /\ program.ops[1].kind = "start"

\* C20 as stated: the compiled program begins with a start op when the
\* first stack begins with a start block, and in every other case fails
\* validateProgram with the must-start error.
C20_StartOrMustStart ==
  [][RunClick =>
       LET p == compileWorkspaceToAst(hWorkspace', compileOptions)
       IN IF BeginsWithStart(hWorkspace')
          THEN Len(p.ops) > 0 /\ p.ops[1].kind = "start"
          ELSE validateProgram(p) = ErrNoStart]_vars

\* C20 amended: the compiled program begins with a start op exactly when
\* the first block with a role in the first stack is a start block, so
\* whenever the stack begins with one; when that block has another role
\* the program fails validateProgram with the must-start error; with no
\* stack, or no block with a role in the first stack, the program is empty
\* and fails with the empty-program error.  The Run handler starts no run
\* for a refused program and never runs one that does not begin with start.
C20_StartFirstOrRefused ==
  /\ [][RunClick =>
         LET p == compileWorkspaceToAst(hWorkspace', compileOptions)
             roles == RoleBlocks(hWorkspace')
         IN /\ BeginsWithStart(hWorkspace') =>
                 Len(p.ops) > 0 /\ p.ops[1].kind = "start"
            /\ Len(p.ops) = Len(roles)
            /\ Len(roles) = 0 => validateProgram(p) = ErrEmpty
            /\ Len(roles) > 0 =>
                 /\ p.ops[1].kind = "start" <=>
                      roles[1].type = "event_whenflagclicked"
                 /\ roles[1].type # "event_whenflagclicked" =>
                      validateProgram(p) = ErrNoStart
            /\ validateProgram(p) # "" => hController' = hController
            /\ hController' # hController => program' = p]_vars
  /\ []RunsStartFirst

\* A run was started from a stack that begins with a block without a
\* role, followed by a start block, and has applied its start op.
C20_Witness ==
  /\ hController > 0
  /\ Len(hWorkspace) > 0
  /\ hWorkspace[1][1].type = "math_number"
  /\ hWorkspace[1][2].type = "event_whenflagclicked"
  /\ program.ops[1].kind = "start"
  /\ CountEv(trace, "applyOp") >= 1

\* The status that goes with a signal of the adapter.
StatusOf(e) == IF e = "WIN" THEN "win" ELSE "error"

\* This step appends an event ev to the trace.
Emits(ev) ==
  /\ Len(trace') > Len(trace)
  /\ trace'[Len(trace')].ev = ev

\* C22: the maze adapter throws only WIN and CHOQUE, and the status is
\* already "win" or "error" accordingly when the throw leaves applyOp; it
\* still is when the host's onError reads it.
C22_StatusBeforeSignal ==
  /\ [][Emits("throw") =>
         /\ trace'[Len(trace')].arg \in {"WIN", "CHOQUE"}
         /\ state'.status = StatusOf(trace'[Len(trace')].arg)]_vars
  /\ [][Emits("onError") =>
         /\ trace'[Len(trace')].arg \in {"WIN", "CHOQUE"}
         /\ state.status = StatusOf(trace'[Len(trace')].arg)
         /\ state' = state]_vars

\* Runs of the host have ended in onError, one with a win.
C22_Witness ==
  /\ hController > 0
  /\ aw.kind = "end"
  /\ trace[Len(trace)].ev = "onError"
  /\ trace[Len(trace)].arg = "WIN"
  /\ state.status = "win"

\* C21: in the host at most one run is active at any time.  The run of
\* the controller and the run of the controller before it are never both
\* running; the step that starts a new run leaves the previous run
\* stopped, and so does a switch of game; and whatever the previous run
\* still has queued when the new run has started, its steps call no hook,
\* apply no op and leave the state alone.
C21_OneActiveRun ==
  /\ [](~(running /\ hOld.run.running))
  /\ [][hController' > hController =>
          /\ ~hOld'.run.running
          /\ running => hOld'.run.stopped]_vars
  /\ [][hClicks'.n > hClicks.n /\ hClicks'.last = "switch" =>
          /\ ~running'
          /\ running => stopped']_vars
  /\ [][hOld.swapped /\ hOld'.swapped =>
          /\ trace' = trace
          /\ state' = state]_vars

\* The second run is under way, and the first one, stopped in its wait
\* with ops still to walk, has taken its turn and ended.
C21_Witness ==
  /\ hController = 2
  /\ hOld.swapped
  /\ hOld.run.running
  /\ stopped
  /\ aw.kind = "end"
  /\ Len(program.ops) > 2

\* The places in the trace where runProgram called adapter.reset.
ResetCalls(tr) ==
  {n \in 1..Len(tr) : tr[n].ev = "reset" /\ tr[n].arg = "runProgram"}

\* C23: at the start of every run adapter.reset is called exactly once,
\* with options.initialState (the state the host marked running), before
\* any hook of the run; onStatus("Ejecutando...") is the notification right
\* after it, emitted once and before any onStep; and the first applyOp
\* receives the state that reset returned.
C23_ResetThenEjecutando ==
  hController > 0 =>
    /\ Cardinality(ResetCalls(trace)) = 1
    /\ CountStatus(trace, "Ejecutando...") = (IF returned THEN 1 ELSE 0)
    /\ \A n \in ResetCalls(trace) :
         /\ trace[n].st.status = "running"
         /\ trace[n].st.message = "Jugando..."
         /\ \A m \in 1..(n - 1) :
              \/ trace[m].ev = "reset"
              \/ m = 1 /\ trace[m].ev = "onStatus" /\ trace[m].arg = "Detenido."
         /\ returned =>
              /\ Len(trace) > n
              /\ trace[n + 1].ev = "onStatus"
              /\ trace[n + 1].arg = "Ejecutando..."
         /\ ~returned => Len(trace) = n
         /\ Applied(trace) # <<>> => Applied(trace)[1].st = reset(trace[n].st)

\* A second run, started while the first was in its wait, has applied
\* its first op.
C23_Witness ==
  /\ hController = 2
  /\ trace[1].ev = "onStatus"
  /\ returned
  /\ Applied(trace) # <<>>
  /\ Applied(trace)[1].st.status = "idle"

\* C24: the state is threaded through the walk.  Every applyOp call but
\* the first receives the state the applyOp call before it returned or
\* resolved to (the generic adapter answers a state s with AdapterNext(s)),
\* across repeat boundaries too; and no step calls applyOp while the
\* promise of the call before is unresolved.
C24_StateThreaded ==
  /\ [](\A n \in 2..Len(Applied(trace)) :
          Applied(trace)[n].st = AdapterNext(Applied(trace)[n - 1].st))
  /\ [][aw.kind = "apply" /\ aw.status = "pending" =>
          CountEv(trace', "applyOp") = CountEv(trace, "applyOp")]_vars

\* An op is applied after the end of an iteration of a repeat, with the
\* state the ops before it produced.
C24_Witness ==
  \E n \in 1..Len(trace) :
    /\ trace[n].ev = "iterEnd"
    /\ \E m \in (n + 1)..Len(trace) :
         /\ trace[m].ev = "applyOp"
         /\ trace[m].st >= 2

IsWaitApply(e) == e.ev = "applyOp" /\ OpAt(e.arg).kind = "wait"
IsTimeout(e) == e.ev = "timeout"

\* The block ids of the wait ops of the program.
WaitIds == {o.blockId : o \in {x \in Nodes(program.ops) : x.kind = "wait"}}

\* The timeouts fired, and the ops with an id in ids applied, before
\* place m of tr.
TimeoutsBefore(tr, m) == Len(SelectSeq(SubSeq(tr, 1, m - 1), IsTimeout))
AppliedBefore(tr, m, ids) ==
  Len(SelectSeq(SubSeq(tr, 1, m - 1),
                LAMBDA e : e.ev = "applyOp" /\ e.arg \in ids))

\* C25: after a Wait op has been applied the walk is suspended for
\* max(0, ms) milliseconds.  The timeout a step schedules is that of the
\* wait op just applied, with delay max(0, ms), so 0 for a negative ms;
\* and at every onStep and applyOp of the trace, the timeout of every Wait
\* applied before it has fired.
C25_WaitSuspends ==
  /\ [][\A t \in timers' \ timers :
          /\ aw.kind = "apply"
          /\ CurrentOp(stack).kind = "wait"
          /\ t.ms = (IF CurrentOp(stack).ms < 0 THEN 0 ELSE CurrentOp(stack).ms)
          /\ aw'.kind = "sleep"
          /\ aw'.status = "pending"
          /\ StepApply(trace') = StepApply(trace)]_vars
  /\ [](LET waits == WaitIds
        IN \A m \in 1..Len(trace) :
             trace[m].ev \in {"onStep", "applyOp"} =>
               TimeoutsBefore(trace, m) = AppliedBefore(trace, m, waits))

\* A wait of negative ms was applied, its timeout fired, and the op after
\* it was applied.
C25_Witness ==
  \E n \in 1..Len(trace) :
    /\ IsWaitApply(trace[n])
    /\ OpAt(trace[n].arg).ms < 0
    /\ \E k \in (n + 1)..Len(trace) :
         /\ trace[k].ev = "timeout"
         /\ \E m \in (k + 1)..Len(trace) : trace[m].ev = "applyOp"

\* The onStep events of op r, and the iterations begun of repeat op r.
StepsOf(r) ==
  Len(SelectSeq(trace, LAMBDA e : e.ev = "onStep" /\ e.arg = r.blockId))
ItersOf(r) ==
  Len(SelectSeq(trace, LAMBDA e : e.ev = "iterBegin" /\ e.arg = r.blockId))

\* C26: a Repeat op is never passed to adapter.applyOp, which is called
\* for start, move, turn and wait ops only.  onStep fires for a repeat
\* once each time the op is reached: at most once for a repeat of the top
\* level and at most once per iteration begun of the repeat around it, and
\* exactly so many times in a run that completed, whatever its times; the
\* iterations of the repeat itself add none, there being up to
\* max(0, floor(times)) of them for each onStep.
C26_RepeatNotApplied ==
  LET nodes == Nodes(program.ops)
      done == HasEv(trace, "onDone")
  IN /\ \A n \in 1..Len(trace) :
          trace[n].ev = "applyOp" =>
            \E o \in nodes :
              /\ o.blockId = trace[n].arg
              /\ o.kind \in {"start", "move", "turn", "wait"}
     /\ \A r \in nodes :
          r.kind = "repeat" =>
            LET steps == StepsOf(r)
                iters == ItersOf(r)
                parents == {q \in nodes :
                              \E k \in 1..Len(q.body) :
                                q.body[k].blockId = r.blockId}
            IN /\ iters <= steps * RepeatTimes(r)
               /\ done => iters = steps * RepeatTimes(r)
               /\ parents = {} =>
                    /\ steps <= 1
                    /\ done => steps = 1
               /\ \A q \in parents :
                    /\ steps <= ItersOf(q)
                    /\ done => steps = ItersOf(q)

\* A completed run with a repeat of two iterations and one onStep, and a
\* repeat of no iteration and one onStep.
C26_Witness ==
  /\ HasEv(trace, "onDone")
  /\ \E r \in Nodes(program.ops) :
       r.kind = "repeat" /\ ItersOf(r) = 2 /\ StepsOf(r) = 1
  /\ \E r \in Nodes(program.ops) :
       r.kind = "repeat" /\ RepeatTimes(r) = 0 /\ StepsOf(r) = 1

\* The terminal notifications the run has emitted so far.
Outcomes ==
  {k \in {"onDone", "onError", "Detenido."} :
     IF k = "Detenido." THEN HasStatus(trace, k) ELSE HasEv(trace, k)}

\* C27: a run ends with exactly one terminal outcome.  Of onDone, onError
\* and onStatus("Detenido.") at most one is ever emitted for a run, in
\* every interleaving of stop() with the walk.
C27_OneOutcome ==
  Cardinality(Outcomes) <= 1

\* C28: onStatus("Detenido.") is emitted at most once per run, however
\* many times stop() is called on the controller, and onDone and onError
\* are each emitted at most once per run.
C28_AtMostOnce ==
  /\ CountStatus(trace, "Detenido.") <= 1
  /\ CountEv(trace, "onDone") <= 1
  /\ CountEv(trace, "onError") <= 1
  /\ stopped => CountStatus(trace, "Detenido.") = 1

\* stop() was called twice on a run that the first call stopped.
C28_Witness ==
  /\ stopCalls = 2
  /\ stopped
  /\ CountStatus(trace, "Detenido.") = 1
  /\ aw.kind = "end"

\* The player's cell is on the grid of the state's level and is no wall.
OnFreeCell(st) ==
  LET level == getLevel(st.levelId)
  IN /\ st.player.x \in 0..(level.gridW - 1)
     /\ st.player.y \in 0..(level.gridH - 1)
     /\ Cell(st.player.x, st.player.y) \notin level.walls

\* C29: the position invariant of the maze adapter.  reset puts the
\* player on a cell of the grid that is no wall (every level starts on
\* one), and an applyOp call on a state whose player is on such a cell
\* leaves the player on such a cell, whether it returns or throws; so
\* after a reset every call leaves the player on the grid and off the
\* walls.
C29_PositionInvariant ==
  /\ \A n \in 1..Len(ad.log) :
       /\ ad.log[n].call = "reset" => OnFreeCell(ad.log[n].after)
       /\ (ad.log[n].call = "applyOp" /\ OnFreeCell(ad.log[n].before)) =>
            OnFreeCell(ad.log[n].after)
  /\ (Len(ad.log) > 0 /\ ad.log[1].call = "reset") =>
       \A n \in 1..Len(ad.log) : OnFreeCell(ad.log[n].after)

\* After a reset of a state that stood on a wall, a move back off the
\* grid threw CHOQUE and left the player on the start cell.
C29_Witness ==
  /\ \A n \in 1..Len(levels) :
       OnFreeCell(makeInitialState(levels[n].id))
  /\ Len(ad.log) = 2
  /\ ad.log[1].call = "reset"
  /\ ~OnFreeCell(ad.log[1].before)
  /\ ad.log[2].call = "applyOp"
  /\ ad.log[2].op.kind = "move"
  /\ ad.log[2].op.steps < 0
  /\ ad.log[2].thrown = "CHOQUE"
  /\ ad.st.player = getLevel(ad.st.levelId).start

\* The run on the state is over: the player has won or crashed.
Over(st) == st.status \in {"win", "error"}

\* C30: once the status of the maze state is "win" or "error", every
\* applyOp call returns the state as it was (position, direction, status
\* and message) and throws nothing; of the calls of the adapter only reset
\* leaves that status, and reset always does.
C30_FrozenWhenOver ==
  \A n \in 1..Len(ad.log) :
    /\ (ad.log[n].call = "applyOp" /\ Over(ad.log[n].before)) =>
         /\ ad.log[n].after = ad.log[n].before
         /\ ad.log[n].thrown = ""
    /\ (Over(ad.log[n].before) /\ ~Over(ad.log[n].after)) =>
         ad.log[n].call = "reset"
    /\ ad.log[n].call = "reset" => ~Over(ad.log[n].after)

\* A move reached the goal and threw WIN; the move after it, towards a
\* free cell, changed nothing.
C30_Witness ==
  /\ Len(ad.log) = 2
  /\ ad.log[1].call = "applyOp"
  /\ ad.log[1].thrown = "WIN"
  /\ ad.log[2].call = "applyOp"
  /\ ad.log[2].op.kind = "move"
  /\ ad.log[2].thrown = ""
  /\ ad.st = ad.log[1].after
  /\ ad.st.status = "win"
  /\ applyOp(ad.log[2].op, [ad.st EXCEPT !.status = "idle"]).state.player
       # ad.st.player

\* The program the Run handler started is executing: the controller's run
\* is on turn, running, and the adapter has raised nothing.
Executing ==
  /\ hController > 0
  /\ ~hOld.swapped
  /\ running
  /\ ~HasEv(trace, "throw")

\* C31: in the host, while a program started by the Run handler is
\* executing, the status of the game state is "running": the status the
\* handler set before runProgram is in place when the first op is
\* applied, and stays until the run ends.
C31_RunningWhileExecuting ==
  /\ Executing => state.status = "running"
  /\ (hController > 0 /\ Applied(trace) # <<>>) =>
       Applied(trace)[1].st.status = "running"

\* The runtime with its environment doing its part: the event loop runs
\* every continuation that is due (the microtasks of lines 68, 72, 74 and
\* 82), every promise an applyOp returned settles, and every scheduled
\* timeout fires.  stop() may or may not be called.
SpecFair ==
  /\ Spec
  /\ WF_vars(RunProgram)
  /\ WF_vars(ApplySettle)
  /\ WF_vars(ResumeApply)
  /\ WF_vars(ResumeSleep)
  /\ WF_vars(ResumeBody)
  /\ WF_vars(ResumeRun)
  /\ WF_vars(TimerFire)

\* The number of hook calls in tr.
HookCalls(tr) ==
  Len(SelectSeq(tr, LAMBDA e : e.ev \in {"onStep", "onStatus", "onDone", "onError"}))

\* C32: every run eventually reaches a terminal state in which
\* isRunning() is false and stays false, given that every applyOp settles
\* and every timer fires, with or without stop() calls; and once
\* isRunning() is false no hook is emitted any more.
C32_TerminatesForGood ==
  /\ <>[](~isRunning)
  /\ [][~isRunning => HookCalls(trace') = HookCalls(trace)]_vars

====
